---- MODULE Spec2Model ----
(***************************************************************************)
(* The interview orchestration core of whyvineet/coding-ninja:             *)
(*   src/agent.py       InterviewAgent, InterviewState, QuestionHistory    *)
(*   src/evaluation.py  AnswerEvaluator, create_performance_report         *)
(*                                                                         *)
(* Conventions.                                                            *)
(*   - A Python Optional is None (<<>>) or Some(v) (<<v>>).                *)
(*   - A score is a number of tenths (8.5 is 85, 10.0 is 100).             *)
(*   - A text is the sequence of its pieces between single spaces, i.e.    *)
(*     what s.split(" ") gives: " Ada " is <<"", "Ada", "">>.               *)
(*   - A mean is the exact fraction [num, den] of tenths.                  *)
(*   - The generative model and the spreadsheet bytes are the environment: *)
(*     each call draws what the model answers from a small set.            *)
(***************************************************************************)
EXTENDS Integers, Sequences, FiniteSets, TLC

VARIABLES
    candidate_name,     \* InterviewState.candidate_name : Optional text
    current_phase,      \* InterviewState.current_phase
    question_count,     \* InterviewState.question_count
    max_questions,      \* InterviewState.max_questions
    current_difficulty, \* InterviewState.current_difficulty
    question_history,   \* InterviewState.question_history : Seq(QuestionHistory)
    overall_score,      \* InterviewState.overall_score : Optional mean
    tested_skills,      \* InterviewAgent.tested_skills
    evaluator,          \* InterviewAgent.evaluator is set (TRUE) or None (FALSE)
    result,             \* what the last call returned, and what it did on the way
    log,                \* history of the session since the last InterviewState()
    arguments,          \* the arguments of a direct call of a function of
                        \* evaluation.py, or those of the last
                        \* process_response call where a specification
                        \* keeps them (None otherwise)
    returned,           \* what the successive direct calls returned
    sessions            \* the browser sessions of src/app.py where a
                        \* specification runs them: for each its agent and
                        \* the position of its script run within a turn,
                        \* or its st.session_state and widgets

stateVars == <<candidate_name, current_phase, question_count, max_questions,
               current_difficulty, question_history, overall_score>>

vars == <<candidate_name, current_phase, question_count, max_questions,
          current_difficulty, question_history, overall_score, tested_skills,
          evaluator, result, log, arguments, returned, sessions>>

-----------------------------------------------------------------------------
(* Bounds of the model.                                                    *)

\* max_questions is a session's fixed configuration, the default of the
\* InterviewState dataclass.  Spec and SpecOutage run every configuration
\* of 1..MaxQuestions; SpecDefault runs the source's own value.
MaxQuestions == 2

-----------------------------------------------------------------------------
(* Python values.                                                          *)

None == << >>

Some(v) == << v >>

IsNone(o) == o = None

Val(o) == o[1]

\* no browser session is run
NoSessions == << >>

Min(a, b) == IF a <= b THEN a ELSE b

Max(a, b) == IF a >= b THEN a ELSE b

RECURSIVE SumSeq(_)
SumSeq(s) == IF s = << >> THEN 0 ELSE Head(s) + SumSeq(Tail(s))

Range(s) == { s[i] : i \in 1..Len(s) }

(* str.strip(): leading and trailing whitespace removed.                   *)
RECURSIVE LStrip(_)
LStrip(t) == IF t # << >> /\ Head(t) = "" THEN LStrip(Tail(t)) ELSE t

RECURSIVE RStrip(_)
RStrip(t) ==
    IF t # << >> /\ t[Len(t)] = "" THEN RStrip(SubSeq(t, 1, Len(t) - 1)) ELSE t

Strip(t) == RStrip(LStrip(t))

(* str.split(): the non-empty words.                                       *)
Split(t) == SelectSeq(t, LAMBDA w : w # "")

-----------------------------------------------------------------------------
(* InterviewPhase                                                          *)

INTRODUCTION == "introduction"

QUESTIONING == "questioning"

WRAP_UP == "wrap_up"

COMPLETED == "completed"

InterviewPhase == {INTRODUCTION, QUESTIONING, WRAP_UP, COMPLETED}

(* InterviewAgent.skill_areas                                              *)
skill_areas ==
    << "Basic Functions (SUM, AVERAGE, COUNT)",
       "Lookup Functions (VLOOKUP, INDEX/MATCH)",
       "Pivot Tables and Data Analysis",
       "Data Validation and Conditional Formatting",
       "Advanced Formulas and Array Functions",
       "Charts and Visualization",
       "Data Cleaning and Transformation" >>

valid_types == << "text", "excel_upload", "scenario" >>

(* QuestionHistory(question_id, question_text, question_type,              *)
(*                 difficulty_level, skill_area): the other fields take    *)
(* their dataclass defaults.                                               *)
QuestionHistory(id, text, type, level, skill) ==
    [ question_id      |-> id,
      question_text    |-> text,
      question_type    |-> type,
      difficulty_level |-> level,
      skill_area       |-> skill,
      answer           |-> None,
      file_upload      |-> None,
      score            |-> None,
      feedback         |-> None,
      strengths        |-> << >>,
      improvements     |-> << >> ]

-----------------------------------------------------------------------------
(* The generative model, as question generation sees it.                   *)
(*                                                                         *)
(* One call of chain.invoke either raises (transport error, output that is *)
(* not JSON) or returns a JSON object.  A required field that is missing   *)
(* or falsy is "" here; difficulty_level may be absent.                    *)

LLMFailure ==
    [ ok |-> FALSE, question_text |-> "", question_type |-> "",
      skill_area |-> "", has_difficulty_level |-> FALSE, difficulty_level |-> 0 ]

QuestionData(text, type, skill, hasLevel, level) ==
    [ ok |-> TRUE, question_text |-> text, question_type |-> type,
      skill_area |-> skill, has_difficulty_level |-> hasLevel,
      difficulty_level |-> level ]

\* max_retries = 3 in every retry loop of the source
max_retries == 3

(* What the model answers on the successive attempts of one retry loop:    *)
(* it raises on the first k calls and answers r on every later one.        *)
Script(k, r) == [ fails |-> k, answer |-> r ]

(* The outcome of the i-th call (i = 1, 2, ...) under a script.            *)
Invoke(script, i, failure) == IF i <= script.fails THEN failure ELSE script.answer

(* The skills offered when tested skills are not left out.                 *)
AvailableSkills_Catalog(tested) == skill_areas

(* agent.py 237-239: the skills offered to one generation request.         *)
AvailableSkills(tested) ==
    LET untested == SelectSeq(skill_areas, LAMBDA s : s \notin tested)
    IN  IF untested = << >> THEN skill_areas ELSE untested

(* agent.py 284-288: the response raises unless every required field is    *)
(* present and truthy.                                                     *)
HasRequiredFields(r) ==
    /\ r.ok
    /\ r.question_text # ""
    /\ r.question_type # ""
    /\ r.skill_area # ""

(* QuestionFromResponse that keeps the skill_area the model named.         *)
QuestionFromResponse_AnySkill(r, available, difficulty, count) ==
    QuestionHistory(
        count,
        r.question_text,
        IF r.question_type \in Range(valid_types) THEN r.question_type ELSE "text",
        IF r.has_difficulty_level THEN r.difficulty_level ELSE difficulty,
        r.skill_area)

(* agent.py 290-311: coercions, defaults and the record built from an      *)
(* accepted response.                                                      *)
QuestionFromResponse(r, available, difficulty, count) ==
    QuestionHistory(
        count,
        r.question_text,
        IF r.question_type \in Range(valid_types) THEN r.question_type ELSE "text",
        IF r.has_difficulty_level THEN r.difficulty_level ELSE difficulty,
        IF r.skill_area \in Range(available) THEN r.skill_area ELSE available[1])

basic_question_text ==
    "Explain how to use basic Excel functions for data analysis."

(* agent.py 323-340: the canned question used once every attempt failed.   *)
BasicQuestion(available, difficulty, count) ==
    QuestionHistory(
        count,
        basic_question_text,
        "text",
        Max(1, Min(3, difficulty)),
        IF available # << >> THEN available[1] ELSE skill_areas[1])

(* The retry loop reduced to a single attempt.                             *)
GenerateLoop_NoRetry(script, attempt, sleeps, available, difficulty, count) ==
    LET r == Invoke(script, 1, LLMFailure)
    IN  IF HasRequiredFields(r)
        THEN [ question |-> QuestionFromResponse(r, available, difficulty, count),
               calls    |-> 1,
               sleeps   |-> << >>,
               fallback |-> FALSE ]
        ELSE [ question |-> BasicQuestion(available, difficulty, count),
               calls    |-> 1,
               sleeps   |-> << >>,
               fallback |-> TRUE ]

(* agent.py 276-350: the retry loop.  attempt counts from 0; sleeps is the *)
(* sequence of delays slept so far.                                        *)
RECURSIVE GenerateLoop(_, _, _, _, _, _)
GenerateLoop(script, attempt, sleeps, available, difficulty, count) ==
    LET r == Invoke(script, attempt + 1, LLMFailure)
    IN  IF HasRequiredFields(r)
        THEN [ question |-> QuestionFromResponse(r, available, difficulty, count),
               calls    |-> attempt + 1,
               sleeps   |-> sleeps,
               fallback |-> FALSE ]
        ELSE IF attempt = max_retries - 1
        THEN [ question |-> BasicQuestion(available, difficulty, count),
               calls    |-> attempt + 1,
               sleeps   |-> sleeps,
               fallback |-> TRUE ]
        ELSE GenerateLoop(script, attempt + 1, Append(sleeps, 1 * (attempt + 1)),
                          available, difficulty, count)

(* agent.py 233-350 _generate_next_question, from a state with the given   *)
(* count, history, tested skills and difficulty: the new values of the     *)
(* fields it writes, and what it returns.                                  *)
Generation(g, newCount, history, tested, available, difficulty) ==
    [ question_count   |-> newCount,
      question_history |-> Append(history, g.question),
      tested_skills    |-> tested \cup { g.question.skill_area },
      offered          |-> SubSeq(available, 1, Min(3, Len(available))),
      available        |-> available,
      difficulty       |-> difficulty,
      question         |-> g.question,
      calls            |-> g.calls,
      sleeps           |-> g.sleeps,
      fallback         |-> g.fallback ]

GenerateFrom(script, newCount, history, tested, available, difficulty) ==
    Generation(GenerateLoop(script, 0, << >>, available, difficulty, newCount),
               newCount, history, tested, available, difficulty)

(* _generate_next_question that increments question_count inside the      *)
(* retry loop, once per attempt.                                           *)
GenerateNextQuestion_CountPerAttempt(script, count, history, tested, difficulty) ==
    LET g == GenerateFrom(script, count + 1, history, tested,
                          AvailableSkills(tested), difficulty)
    IN  [ g EXCEPT !.question_count = count + g.calls ]

GenerateNextQuestion(script, count, history, tested, difficulty) ==
    GenerateFrom(script, count + 1, history, tested, AvailableSkills(tested), difficulty)

-----------------------------------------------------------------------------
(* Texts.                                                                  *)

(* len(t): the characters of the pieces and the spaces between them.       *)
RECURSIVE PiecesLen(_)
PiecesLen(t) == IF t = << >> THEN 0 ELSE Len(Head(t)) + PiecesLen(Tail(t))

CharLen(t) == IF t = << >> THEN 0 ELSE PiecesLen(t) + Len(t) - 1

(* evaluation.py 157 *)
excel_terms ==
    << "excel", "formula", "function", "cell", "range", "worksheet", "data", "chart" >>

(* term in word.lower(), for the words the model's answers are made of.    *)
TermsOfWord(w) ==
    CASE w = "Excel"       -> { "excel" }
      [] w = "formulas"    -> { "formula" }
      [] w = "FUNCTION"    -> { "function" }
      [] w = "cells"       -> { "cell" }
      [] w = "range"       -> { "range" }
      [] w = "worksheet"   -> { "worksheet" }
      [] w = "database"    -> { "data" }
      [] w = "charts"      -> { "chart" }
      [] w = "ExcelDataChart" -> { "excel", "data", "chart" }
      [] w = "CellRangeFormulaFunction" -> { "cell", "range", "formula", "function" }
      [] OTHER             -> { }

(* evaluation.py 158: the terms found in answer.lower(), in list order.    *)
FoundTerms(answer) ==
    SelectSeq(excel_terms, LAMBDA term : \E i \in 1..Len(answer) : term \in TermsOfWord(answer[i]))

-----------------------------------------------------------------------------
(* The generative model, as answer scoring sees it.                        *)

EvalFailure ==
    [ ok |-> FALSE, score_kind |-> "missing", overall_score |-> 0,
      has_feedback |-> FALSE, detailed_feedback |-> << >>,
      strengths_kind |-> "absent", strengths |-> << >>,
      improvements_kind |-> "absent", improvements |-> << >> ]

(* score_kind: "number", "missing" (no overall_score key) or "other" (not  *)
(* a number); a list field's kind: "list", "absent" or "other".            *)
EvalData(scoreKind, score, hasFeedback, feedback, sKind, s, iKind, i) ==
    [ ok |-> TRUE, score_kind |-> scoreKind, overall_score |-> score,
      has_feedback |-> hasFeedback, detailed_feedback |-> feedback,
      strengths_kind |-> sKind, strengths |-> s,
      improvements_kind |-> iKind, improvements |-> i ]

(* evaluation.py 400-421 _validate_evaluation_response: TRUE when it       *)
(* returns, FALSE when it raises.                                          *)
ValidateEvaluationResponse(e) ==
    /\ e.ok
    /\ e.score_kind # "missing"
    /\ e.has_feedback
    /\ e.score_kind = "number"
    /\ 0 <= e.overall_score /\ e.overall_score <= 100
    /\ e.detailed_feedback # << >>
    /\ CharLen(Strip(e.detailed_feedback)) >= 10
    /\ e.strengths_kind \in { "absent", "list" }
    /\ e.improvements_kind \in { "absent", "list" }

(* EvaluationResult (category_scores left out: nothing reads it).          *)
EvaluationResult(score, feedback, strengths, improvements) ==
    [ score |-> score, feedback |-> feedback,
      strengths |-> strengths, improvements |-> improvements ]

(* evaluation.py 115-129 and 324-338: defaults, clamp, result.             *)
ResultFromResponse(e, defaultStrengths, defaultImprovements) ==
    EvaluationResult(
        Max(0, Min(100, e.overall_score)),
        e.detailed_feedback,
        IF e.strengths_kind = "absent" THEN defaultStrengths ELSE e.strengths,
        IF e.improvements_kind = "absent" THEN defaultImprovements ELSE e.improvements)

basic_feedback ==
    << "Basic", "evaluation", "completed.", "For", "detailed", "feedback,", "please",
       "ensure", "stable", "connection", "and", "try", "again." >>

(* _create_basic_text_evaluation with the +0.5 starting above 25 words.    *)
CreateBasicTextEvaluation_Over25(answer) ==
    LET word_count == Len(Split(answer))
        base       == 50
        byLength   == IF word_count >= 50 THEN base + 10
                      ELSE IF word_count > 25 THEN base + 5
                      ELSE IF word_count < 10 THEN base - 20
                      ELSE base
        withTerms  == byLength + Min(20, Len(FoundTerms(answer)) * 3)
    IN  EvaluationResult(
            Max(10, Min(100, withTerms)),
            basic_feedback,
            << "Provided a response to the question" >>,
            << "Consider providing more detailed explanations with specific Excel examples" >>)

(* _create_basic_text_evaluation without the cap on the keyword bonus.     *)
CreateBasicTextEvaluation_NoCap(answer) ==
    LET word_count == Len(Split(answer))
        base       == 50
        byLength   == IF word_count >= 50 THEN base + 10
                      ELSE IF word_count >= 25 THEN base + 5
                      ELSE IF word_count < 10 THEN base - 20
                      ELSE base
        withTerms  == byLength + Len(FoundTerms(answer)) * 3
    IN  EvaluationResult(
            Max(10, Min(100, withTerms)),
            basic_feedback,
            << "Provided a response to the question" >>,
            << "Consider providing more detailed explanations with specific Excel examples" >>)

(* evaluation.py 141-169 _create_basic_text_evaluation, for a str answer.  *)
CreateBasicTextEvaluation(answer) ==
    LET word_count == Len(Split(answer))
        base       == 50
        byLength   == IF word_count >= 50 THEN base + 10
                      ELSE IF word_count >= 25 THEN base + 5
                      ELSE IF word_count < 10 THEN base - 20
                      ELSE base
        withTerms  == byLength + Min(20, Len(FoundTerms(answer)) * 3)
    IN  EvaluationResult(
            Max(10, Min(100, withTerms)),
            basic_feedback,
            << "Provided a response to the question" >>,
            << "Consider providing more detailed explanations with specific Excel examples" >>)

(* The outcome of one evaluator call: it raised, or it returned `value`;   *)
(* calls is the number of model calls made so far in the turn, sleeps the  *)
(* delays slept, path the branch that produced the value.                  *)
Returned(value, calls, sleeps, path) ==
    [ raised |-> FALSE, value |-> value, calls |-> calls, sleeps |-> sleeps,
      path |-> path ]

Raised(calls, sleeps) ==
    [ raised |-> TRUE, value |-> EvaluationResult(0, << >>, << >>, << >>),
      calls |-> calls, sleeps |-> sleeps, path |-> "raised" ]

(* evaluation.py 58-139 evaluate_text_answer.  user_input is the Optional  *)
(* answer: answer.split() raises on None.                                  *)
RECURSIVE EvaluateTextAnswer(_, _, _, _, _)
EvaluateTextAnswer(user_input, script, attempt, calls, sleeps) ==
    LET e == Invoke(script, calls + 1, EvalFailure)
    IN  IF ValidateEvaluationResponse(e)
        THEN Returned(
                 ResultFromResponse(e,
                     << "Shows understanding of the topic" >>,
                     << "Consider providing more specific details" >>),
                 calls + 1, sleeps, "llm")
        ELSE IF attempt = max_retries - 1
        THEN IF IsNone(user_input)
             THEN Raised(calls + 1, sleeps)
             ELSE Returned(CreateBasicTextEvaluation(Val(user_input)),
                           calls + 1, sleeps, "text_heuristic")
        ELSE EvaluateTextAnswer(user_input, script, attempt + 1, calls + 1,
                                Append(sleeps, 1 * (attempt + 1)))

-----------------------------------------------------------------------------
(* Uploaded bytes and their analysis.                                      *)
(*                                                                         *)
(* The bytes are known by what the parsing libraries make of them: size    *)
(* (0 for b""), whether load_workbook opens them, the formula cells of the *)
(* active sheet (each the set of function names its text matches), the     *)
(* charts, and what pandas.read_excel does ("data", "empty" or "error").   *)
FileBytes(size, workbook, formulas, charts, pandas) ==
    [ size |-> size, workbook |-> workbook, formulas |-> formulas,
      charts |-> charts, pandas |-> pandas ]

(* evaluation.py 203-265 _comprehensive_excel_analysis: it catches every   *)
(* exception itself and always returns a record.                           *)
ComprehensiveExcelAnalysis(file) ==
    IF ~file.workbook
    THEN [ file_readable |-> FALSE, data_present |-> FALSE, formulas |-> << >>,
           functions_used |-> { }, charts_count |-> 0,
           errors |-> << "File analysis error" >> ]
    ELSE [ file_readable  |-> TRUE,
           data_present   |-> file.pandas = "data",
           formulas       |-> file.formulas,
           functions_used |-> UNION Range(file.formulas),
           charts_count   |-> file.charts,
           errors         |-> IF file.pandas = "error"
                              THEN << "Data reading error" >> ELSE << >> ]

advanced_functions == { "VLOOKUP", "INDEX", "MATCH", "SUMIF", "COUNTIF", "PIVOT" }

(* _analysis_based_evaluation without the 0.5 taken off for recorded       *)
(* errors.                                                                 *)
AnalysisBasedEvaluation_NoErrorPenalty(analysis) ==
    LET s0 == IF ~analysis.file_readable THEN 20 ELSE 50
        s1 == IF analysis.data_present THEN s0 + 10 ELSE s0 - 10
        used_advanced == analysis.functions_used \cap advanced_functions
        s2 == IF analysis.formulas # << >>
              THEN s1 + 15 + (IF used_advanced # { } THEN 10 ELSE 0)
              ELSE s1 - 10
        s3 == IF analysis.charts_count > 0 THEN s2 + 5 ELSE s2
    IN  EvaluationResult(Max(10, Min(100, s3)), << >>, << >>, << >>)

(* evaluation.py 340-398 _analysis_based_evaluation                        *)
AnalysisBasedEvaluation(analysis) ==
    LET s0 == IF ~analysis.file_readable THEN 20 ELSE 50
        s1 == IF analysis.data_present THEN s0 + 10 ELSE s0 - 10
        used_advanced == analysis.functions_used \cap advanced_functions
        s2 == IF analysis.formulas # << >>
              THEN s1 + 15 + (IF used_advanced # { } THEN 10 ELSE 0)
              ELSE s1 - 10
        s3 == IF analysis.charts_count > 0 THEN s2 + 5 ELSE s2
        s4 == IF analysis.errors # << >> THEN s3 - 5 ELSE s3
        strengths ==
            (IF analysis.file_readable
             THEN << "File is properly formatted and readable" >> ELSE << >>)
            \o (IF analysis.data_present THEN << "Contains data as expected" >> ELSE << >>)
            \o (IF analysis.formulas # << >> THEN << "Uses formulas" >> ELSE << >>)
            \o (IF analysis.formulas # << >> /\ used_advanced # { }
                THEN << "Uses advanced functions" >> ELSE << >>)
            \o (IF analysis.charts_count > 0 THEN << "Includes chart(s)" >> ELSE << >>)
        improvements ==
            (IF ~analysis.file_readable
             THEN << "Ensure file is in correct Excel format (.xlsx or .xls)" >> ELSE << >>)
            \o (IF ~analysis.data_present
                THEN << "Include relevant data in the spreadsheet" >> ELSE << >>)
            \o (IF analysis.formulas = << >>
                THEN << "Include relevant formulas to solve the problem" >> ELSE << >>)
            \o (IF analysis.errors # << >>
                THEN << "Address file structure issues" >> ELSE << >>)
        feedback ==
            IF ~analysis.file_readable
            THEN << "Analysis-based", "evaluation:", "File", "could", "not", "be",
                    "read", "properly." >>
            ELSE << "Analysis-based", "evaluation:", "Basic", "Excel", "file",
                    "analysis", "completed." >>
    IN  EvaluationResult(Max(10, Min(100, s4)), feedback, strengths, improvements)

(* evaluation.py 194-201: the result of the outer except.                  *)
ExcelProcessingError ==
    EvaluationResult(
        20,
        << "Unable", "to", "process", "Excel", "file" >>,
        << >>,
        << "Verify file format and structure", "Ensure file is not corrupted",
           "Try uploading the file again" >>)

(* Whether anything inside the outer try of evaluate_excel_upload raises   *)
(* past its inner handlers: the analysis catches its own exceptions        *)
(* (evaluation.py 259-260) and the analysis-based evaluation has none.     *)
ExcelEvaluationRaises(file) == FALSE

(* evaluation.py 181-192: the retry loop around _llm_excel_evaluation.     *)
RECURSIVE ExcelEvaluationLoop(_, _, _, _, _)
ExcelEvaluationLoop(analysis, script, attempt, calls, sleeps) ==
    LET e == Invoke(script, calls + 1, EvalFailure)
    IN  IF ValidateEvaluationResponse(e)
        THEN Returned(
                 ResultFromResponse(e,
                     << "File uploaded successfully" >>,
                     << "Consider adding more comprehensive documentation" >>),
                 calls + 1, sleeps, "llm")
        ELSE IF attempt = max_retries - 1
        THEN Returned(AnalysisBasedEvaluation(analysis), calls + 1, sleeps,
                      "analysis_heuristic")
        ELSE ExcelEvaluationLoop(analysis, script, attempt + 1, calls + 1,
                                 Append(sleeps, 1 * (attempt + 1)))

(* evaluation.py 171-201 evaluate_excel_upload                             *)
EvaluateExcelUpload(file, script, calls, sleeps) ==
    IF ExcelEvaluationRaises(file)
    THEN Returned(ExcelProcessingError, calls, sleeps, "file_error")
    ELSE ExcelEvaluationLoop(ComprehensiveExcelAnalysis(file), script, 0, calls, sleeps)

(* `if uploaded_file:` (agent.py 184): None and b"" are falsy.             *)
Truthy(uploaded_file) == ~IsNone(uploaded_file) /\ Val(uploaded_file).size > 0

(* EvaluationExhausted with -1.0 as the score of an unevaluated answer.    *)
EvaluationExhausted_Sentinel ==
    [ score        |-> -10,
      feedback     |-> << "Unable", "to", "evaluate", "response", "after", "3",
                          "attempts.", "Please", "try", "again." >>,
      strengths    |-> << >>,
      improvements |-> << "Please resubmit your response" >>,
      error        |-> TRUE ]

(* agent.py 219-228: what _evaluate_response returns once its own attempts *)
(* are used up.                                                            *)
EvaluationExhausted ==
    [ score        |-> 0,
      feedback     |-> << "Unable", "to", "evaluate", "response", "after", "3",
                          "attempts.", "Please", "try", "again." >>,
      strengths    |-> << >>,
      improvements |-> << "Please resubmit your response" >>,
      error        |-> TRUE ]

(* agent.py 189-195 and 207-213: the dict built from an EvaluationResult.  *)
EvaluationDict(r) ==
    [ score |-> r.score, feedback |-> r.feedback, strengths |-> r.strengths,
      improvements |-> r.improvements, error |-> FALSE ]

(* agent.py 178-231 _evaluate_response: the dict it returns, with the      *)
(* number of model calls, the delays slept (the evaluator's and its own)   *)
(* and the path taken.                                                     *)
RECURSIVE EvaluateResponse(_, _, _, _, _, _, _)
(* agent.py 189-231: what an attempt does with r, the outcome of its       *)
(* evaluator call.                                                         *)
AfterEvaluatorCall(r, hasEvaluator, user_input, uploaded_file, script, attempt) ==
    IF ~r.raised
    THEN [ evaluation |-> EvaluationDict(r.value), calls |-> r.calls,
           sleeps |-> r.sleeps, path |-> r.path, attempts |-> attempt + 1 ]
    ELSE IF attempt = max_retries - 1
    THEN [ evaluation |-> EvaluationExhausted, calls |-> r.calls,
           sleeps |-> r.sleeps, path |-> "exhausted", attempts |-> attempt + 1 ]
    ELSE EvaluateResponse(hasEvaluator, user_input, uploaded_file, script,
                          attempt + 1, r.calls, Append(r.sleeps, 1 * (attempt + 1)))

EvaluateResponse(hasEvaluator, user_input, uploaded_file, script, attempt, calls, sleeps) ==
    AfterEvaluatorCall(
        IF ~hasEvaluator THEN Raised(calls, sleeps)
        ELSE IF Truthy(uploaded_file)
        THEN EvaluateExcelUpload(Val(uploaded_file), script, calls, sleeps)
        ELSE EvaluateTextAnswer(user_input, script, 0, calls, sleeps),
        hasEvaluator, user_input, uploaded_file, script, attempt)

(* _adapt_difficulty with > 8.5 in place of >= 8.5.                        *)
AdaptDifficulty_Strict(difficulty, last_score) ==
    IF last_score > 85 THEN Min(5, difficulty + 1)
    ELSE IF last_score <= 40 THEN Max(1, difficulty - 1)
    ELSE difficulty

(* _adapt_difficulty that raises the difficulty from a score of 8.0.       *)
AdaptDifficulty_From8(difficulty, last_score) ==
    IF last_score >= 80 THEN Min(5, difficulty + 1)
    ELSE IF last_score <= 40 THEN Max(1, difficulty - 1)
    ELSE difficulty

(* agent.py 369-375 _adapt_difficulty: the new current_difficulty.         *)
AdaptDifficulty(difficulty, last_score) ==
    IF last_score >= 85 THEN Min(5, difficulty + 1)
    ELSE IF last_score <= 40 THEN Max(1, difficulty - 1)
    ELSE difficulty

(* RecordedScores that keeps the truthy scores (`if q.score`).             *)
RecordedScores_Truthy(history) ==
    LET scored == SelectSeq(history,
                            LAMBDA q : ~IsNone(q.score) /\ Val(q.score) # 0)
    IN  [ i \in 1..Len(scored) |-> Val(scored[i].score) ]

(* agent.py 381-382: the mean of the scores that are not None, 0 if none.  *)
RecordedScores(history) ==
    LET scored == SelectSeq(history, LAMBDA q : ~IsNone(q.score))
    IN  [ i \in 1..Len(scored) |-> Val(scored[i].score) ]

Mean(scores) ==
    IF scores = << >> THEN [ num |-> 0, den |-> 1 ]
    ELSE [ num |-> SumSeq(scores), den |-> Len(scores) ]

OverallScore(history) == Mean(RecordedScores(history))

-----------------------------------------------------------------------------
(* The agent's state as one value, and what a call returns.                *)

(* InterviewState(): the dataclass defaults; n is the configured default   *)
(* of max_questions.                                                       *)
InterviewState(n) ==
    [ candidate_name     |-> None,
      current_phase      |-> INTRODUCTION,
      question_count     |-> 0,
      max_questions      |-> n,
      current_difficulty |-> 2,
      question_history   |-> << >>,
      overall_score      |-> None ]

(* self.state and self.tested_skills, read at the start of a call.         *)
Agent ==
    [ state         |-> [ candidate_name     |-> candidate_name,
                          current_phase      |-> current_phase,
                          question_count     |-> question_count,
                          max_questions      |-> max_questions,
                          current_difficulty |-> current_difficulty,
                          question_history   |-> question_history,
                          overall_score      |-> overall_score ],
      tested_skills |-> tested_skills ]

(* The dict a call returns (a key that is absent is None), followed by     *)
(* what the call did: the values it assigned to current_phase in order,    *)
(* the generation it ran and the evaluation it ran.                        *)
Return(error, phase, next_action, evaluation, question, question_id, overall) ==
    [ error         |-> error,
      phase         |-> phase,
      next_action   |-> next_action,
      evaluation    |-> evaluation,
      question      |-> question,
      question_id   |-> question_id,
      overall_score |-> overall ]

NoGeneration == None

NoEvaluation == None

(* What a handler hands back: the agent after it, the dict it returns (or  *)
(* the exception it raised), and the trace of the call.                    *)
Outcome(agent, raised, ret, phases, generation, evaluation) ==
    [ agent |-> agent, raised |-> raised, ret |-> ret, phases |-> phases,
      generation |-> generation, evaluation |-> evaluation ]

(* The question_data dict _generate_next_question returns.                 *)
QuestionDict(q) ==
    [ question_text |-> q.question_text, question_type |-> q.question_type,
      difficulty_level |-> q.difficulty_level, skill_area |-> q.skill_area ]

GenerationLog(g) ==
    [ calls |-> g.calls, sleeps |-> g.sleeps, fallback |-> g.fallback,
      offered |-> g.offered, available |-> g.available,
      difficulty |-> g.difficulty ]

EvaluationLog(e) ==
    [ calls |-> e.calls, sleeps |-> e.sleeps, path |-> e.path,
      attempts |-> e.attempts ]

(* Generated that also moves current_difficulty to the level of the        *)
(* question generated.                                                     *)
Generated_SyncDifficulty(agent, g) ==
    [ agent |-> [ state |-> [ agent.state EXCEPT
                                !.question_count = g.question_count,
                                !.question_history = g.question_history,
                                !.current_difficulty = g.question.difficulty_level ],
                  tested_skills |-> g.tested_skills ],
      g     |-> g ]

(* The agent once _generate_next_question has written its fields.         *)
Generated(agent, g) ==
    [ agent |-> [ state |-> [ agent.state EXCEPT
                                !.question_count = g.question_count,
                                !.question_history = g.question_history ],
                  tested_skills |-> g.tested_skills ],
      g     |-> g ]

(* _generate_next_question run on an agent: the agent after it, and the    *)
(* generation (with the difficulty its prompt carried).                    *)
Generate(agent, script) ==
    Generated(agent,
              GenerateNextQuestion(script, agent.state.question_count,
                                   agent.state.question_history, agent.tested_skills,
                                   agent.state.current_difficulty))

(* _handle_wrap_up that returns the mean without assigning it to           *)
(* overall_score.                                                          *)
HandleWrapUp_NoOverall(agent, phases, evalLog) ==
    Outcome([ agent EXCEPT !.state.current_phase = COMPLETED ], FALSE,
            Return(None, Some(COMPLETED), Some("show_report"), None, None, None,
                   Some(OverallScore(agent.state.question_history))),
            Append(phases, COMPLETED), NoGeneration, evalLog)

(* agent.py 377-401 _handle_wrap_up                                        *)
HandleWrapUp(agent, phases, evalLog) ==
    LET overall == OverallScore(agent.state.question_history)
        after   == [ agent EXCEPT !.state.current_phase = COMPLETED,
                                  !.state.overall_score = Some(overall) ]
    IN  Outcome(after, FALSE,
                Return(None, Some(COMPLETED), Some("show_report"), None, None, None,
                       Some(overall)),
                Append(phases, COMPLETED), NoGeneration, evalLog)

(* agent.py 129-136 and 169-176: what a handler returns after generating   *)
(* a question.                                                             *)
QuestionOutcome(gen, evaluation, phases, evalLog) ==
    Outcome(gen.agent, FALSE,
            Return(None, Some(gen.agent.state.current_phase), Some("await_answer"),
                   evaluation, Some(QuestionDict(gen.g.question)),
                   Some(gen.agent.state.question_count), None),
            phases, Some(GenerationLog(gen.g)), evalLog)

(* _handle_introduction that assigns current_phase before it strips the    *)
(* name.                                                                   *)
HandleIntroduction_PhaseFirst(agent, user_input, genScript) ==
    IF IsNone(user_input)
    THEN Outcome([ agent EXCEPT !.state.current_phase = QUESTIONING ], TRUE,
                 Return(None, None, None, None, None, None, None),
                 << QUESTIONING >>, NoGeneration, NoEvaluation)
    ELSE QuestionOutcome(
             Generate([ agent EXCEPT
                          !.state.candidate_name = Some(Strip(Val(user_input))),
                          !.state.current_phase = QUESTIONING ],
                      genScript),
             None, << QUESTIONING >>, NoEvaluation)

(* _handle_introduction that leaves the first question to the next call.   *)
HandleIntroduction_NoQuestion(agent, user_input, genScript) ==
    IF IsNone(user_input)
    THEN Outcome(agent, TRUE, Return(None, None, None, None, None, None, None),
                 << >>, NoGeneration, NoEvaluation)
    ELSE Outcome([ agent EXCEPT
                     !.state.candidate_name = Some(Strip(Val(user_input))),
                     !.state.current_phase = QUESTIONING ],
                 FALSE,
                 Return(None, Some(QUESTIONING), Some("await_answer"), None, None,
                        Some(agent.state.question_count), None),
                 << QUESTIONING >>, NoGeneration, NoEvaluation)

(* agent.py 121-136 _handle_introduction: user_input.strip() raises on a   *)
(* user_input that is not a str, before anything is assigned.              *)
HandleIntroduction(agent, user_input, genScript) ==
    IF IsNone(user_input)
    THEN Outcome(agent, TRUE, Return(None, None, None, None, None, None, None),
                 << >>, NoGeneration, NoEvaluation)
    ELSE QuestionOutcome(
             Generate([ agent EXCEPT
                          !.state.candidate_name = Some(Strip(Val(user_input))),
                          !.state.current_phase = QUESTIONING ],
                      genScript),
             None, << QUESTIONING >>, NoEvaluation)

(* RecordAnswer that stores the feedback and the lists, not the score.     *)
RecordAnswer_NoScore(agent, user_input, uploaded_file, ev) ==
    LET n == Len(agent.state.question_history)
    IN  [ agent EXCEPT
            !.state.question_history[n].answer = user_input,
            !.state.question_history[n].file_upload = uploaded_file,
            !.state.question_history[n].feedback = Some(ev.feedback),
            !.state.question_history[n].strengths = ev.strengths,
            !.state.question_history[n].improvements = ev.improvements,
            !.state.current_difficulty =
                AdaptDifficulty(agent.state.current_difficulty, ev.score) ]

(* RecordAnswer that does not store the feedback.                          *)
RecordAnswer_NoFeedback(agent, user_input, uploaded_file, ev) ==
    LET n == Len(agent.state.question_history)
    IN  [ agent EXCEPT
            !.state.question_history[n].answer = user_input,
            !.state.question_history[n].file_upload = uploaded_file,
            !.state.question_history[n].score = Some(ev.score),
            !.state.question_history[n].strengths = ev.strengths,
            !.state.question_history[n].improvements = ev.improvements,
            !.state.current_difficulty =
                AdaptDifficulty(agent.state.current_difficulty, ev.score) ]

(* agent.py 144-159: the answer and the evaluation stored on the active    *)
(* record, and the difficulty adapted.                                     *)
RecordAnswer(agent, user_input, uploaded_file, ev) ==
    LET n == Len(agent.state.question_history)
    IN  [ agent EXCEPT
            !.state.question_history[n].answer = user_input,
            !.state.question_history[n].file_upload = uploaded_file,
            !.state.question_history[n].score = Some(ev.score),
            !.state.question_history[n].feedback = Some(ev.feedback),
            !.state.question_history[n].strengths = ev.strengths,
            !.state.question_history[n].improvements = ev.improvements,
            !.state.current_difficulty =
                AdaptDifficulty(agent.state.current_difficulty, ev.score) ]

(* ContinueOrWrapUp that calls _handle_wrap_up without first assigning     *)
(* WRAP_UP to current_phase.                                               *)
ContinueOrWrapUp_NoWrapUpPhase(agent, evaluation, evalLog, genScript) ==
    IF agent.state.question_count >= agent.state.max_questions
    THEN HandleWrapUp(agent, << >>, evalLog)
    ELSE QuestionOutcome(Generate(agent, genScript), evaluation, << >>, evalLog)

(* ContinueOrWrapUp with > in place of >=.                                 *)
ContinueOrWrapUp_Greater(agent, evaluation, evalLog, genScript) ==
    IF agent.state.question_count > agent.state.max_questions
    THEN HandleWrapUp([ agent EXCEPT !.state.current_phase = WRAP_UP ],
                      << WRAP_UP >>, evalLog)
    ELSE QuestionOutcome(Generate(agent, genScript), evaluation, << >>, evalLog)

(* agent.py 161-176: wrap up once question_count has reached               *)
(* max_questions, else generate the next question.                         *)
ContinueOrWrapUp(agent, evaluation, evalLog, genScript) ==
    IF agent.state.question_count >= agent.state.max_questions
    THEN HandleWrapUp([ agent EXCEPT !.state.current_phase = WRAP_UP ],
                      << WRAP_UP >>, evalLog)
    ELSE QuestionOutcome(Generate(agent, genScript), evaluation, << >>, evalLog)

(* AfterEvaluation that adapts the difficulty after the next question has  *)
(* been generated.                                                         *)
AfterEvaluation_AdaptLast(agent, user_input, uploaded_file, e, genScript) ==
    LET out == ContinueOrWrapUp(
                   [ RecordAnswer(agent, user_input, uploaded_file, e.evaluation)
                       EXCEPT !.state.current_difficulty =
                                  agent.state.current_difficulty ],
                   Some(e.evaluation), Some(EvaluationLog(e)), genScript)
    IN  [ out EXCEPT !.agent.state.current_difficulty =
                         AdaptDifficulty(agent.state.current_difficulty,
                                         e.evaluation.score) ]

(* agent.py 152-176: the rest of the handler once _evaluate_response has   *)
(* returned e.                                                             *)
AfterEvaluation(agent, user_input, uploaded_file, e, genScript) ==
    ContinueOrWrapUp(RecordAnswer(agent, user_input, uploaded_file, e.evaluation),
                     Some(e.evaluation), Some(EvaluationLog(e)), genScript)

(* agent.py 138-176 _handle_questioning_phase                              *)
HandleQuestioningPhase(agent, hasEvaluator, user_input, uploaded_file, genScript, evalScript) ==
    IF agent.state.question_history = << >>
    THEN ContinueOrWrapUp(agent, None, NoEvaluation, genScript)
    ELSE AfterEvaluation(
             agent, user_input, uploaded_file,
             EvaluateResponse(hasEvaluator, user_input, uploaded_file, evalScript,
                              0, 0, << >>),
             genScript)

(* process_response that treats an input after completion as an answer.    *)
Dispatch_AnswerAgain(agent, hasEvaluator, user_input, uploaded_file, genScript, evalScript) ==
    IF agent.state.current_phase = INTRODUCTION
    THEN HandleIntroduction(agent, user_input, genScript)
    ELSE IF agent.state.current_phase = WRAP_UP
    THEN HandleWrapUp(agent, << >>, NoEvaluation)
    ELSE HandleQuestioningPhase(agent, hasEvaluator, user_input, uploaded_file,
                                genScript, evalScript)

(* process_response whose last branch hands out the report again.          *)
Dispatch_ReportAgain(agent, hasEvaluator, user_input, uploaded_file, genScript, evalScript) ==
    IF agent.state.current_phase = INTRODUCTION
    THEN HandleIntroduction(agent, user_input, genScript)
    ELSE IF agent.state.current_phase = QUESTIONING
    THEN HandleQuestioningPhase(agent, hasEvaluator, user_input, uploaded_file,
                                genScript, evalScript)
    ELSE HandleWrapUp(agent, << >>, NoEvaluation)

(* agent.py 100-119 process_response: the dispatch on the phase, and the   *)
(* except clause, which returns the error with the phase the state has     *)
(* when the exception arrives.                                             *)
Dispatch(agent, hasEvaluator, user_input, uploaded_file, genScript, evalScript) ==
    IF agent.state.current_phase = INTRODUCTION
    THEN HandleIntroduction(agent, user_input, genScript)
    ELSE IF agent.state.current_phase = QUESTIONING
    THEN HandleQuestioningPhase(agent, hasEvaluator, user_input, uploaded_file,
                                genScript, evalScript)
    ELSE IF agent.state.current_phase = WRAP_UP
    THEN HandleWrapUp(agent, << >>, NoEvaluation)
    ELSE Outcome(agent, FALSE,
                 Return(Some("Invalid interview phase"), None, None, None, None,
                        None, None),
                 << >>, NoGeneration, NoEvaluation)

(* agent.py 114-119: the except clause.                                    *)
CatchException(out) ==
    IF out.raised
    THEN [ out EXCEPT !.ret = Return(Some("An error occurred"),
                                     Some(out.agent.state.current_phase),
                                     None, None, None, None, None) ]
    ELSE out

ProcessResponseOutcome(agent, hasEvaluator, user_input, uploaded_file, genScript, evalScript) ==
    CatchException(Dispatch(agent, hasEvaluator, user_input, uploaded_file,
                            genScript, evalScript))

-----------------------------------------------------------------------------
(* The environment: what callers submit and what the model answers.        *)

Ada == << "", "Ada", "" >>

\* 12 words, two of them with a domain term
Answer12 ==
    << "I", "would", "sum", "the", "cells", "of", "a", "range", "with", "the",
       "SUM", "operator" >>

\* 50 words that hold seven of the domain terms
Answer50 ==
    [ i \in 1..50 |-> IF i = 1 THEN "ExcelDataChart"
                      ELSE IF i = 2 THEN "CellRangeFormulaFunction"
                      ELSE "the" ]

EmptyText == << >>

\* bytes that load_workbook cannot open
CorruptFile == FileBytes(9, FALSE, << >>, 0, "error")

\* a workbook with data, a lookup formula and a chart
LookupWorkbook == FileBytes(9, TRUE, << { "VLOOKUP" }, { "SUM" } >>, 1, "data")

\* an unknown type, the last catalog skill, a level outside 1..5
QuestionA == QuestionData("Build a pivot table.", "essay", skill_areas[7], TRUE, 9)

\* question_text missing
NoTextQuestion == QuestionData("", "text", skill_areas[2], FALSE, 0)

llm_feedback == << "Accurate", "and", "clear." >>

HighScore ==
    EvalData("number", 85, TRUE, llm_feedback, "list", << "Clear example" >>,
             "list", << "Add more detail" >>)

LowScore == EvalData("number", 40, TRUE, llm_feedback, "absent", << >>, "absent", << >>)

\* overall_score out of range: rejected by validation
OutOfRangeScore ==
    EvalData("number", 110, TRUE, llm_feedback, "list", << >>, "list", << >>)

\* feedback shorter than 10 characters: rejected by validation
ShortFeedback ==
    EvalData("number", 70, TRUE, << "Good." >>, "list", << >>, "list", << >>)

(* One process_response call as the environment sees it: the arguments and *)
(* what the scoring model answers during the call.                         *)
Turn(user_input, uploaded_file, evalScript) ==
    [ user_input |-> user_input, uploaded_file |-> uploaded_file,
      evalScript |-> evalScript ]

Turns ==
    { Turn(Some(Ada), None, Script(0, HighScore)),
      Turn(Some(Answer12), None, Script(0, LowScore)),
      Turn(Some(Answer12), None, Script(0, OutOfRangeScore)),
      Turn(None, None, Script(0, ShortFeedback)),
      Turn(Some(EmptyText), Some(CorruptFile), Script(0, EvalFailure)),
      Turn(Some(EmptyText), Some(LookupWorkbook), Script(0, EvalFailure)) }

GenScripts == { Script(0, QuestionA), Script(0, NoTextQuestion) }

(* The model is unavailable: every call raises or returns what validation  *)
(* rejects.  Callers submit text or files.                                 *)
OutageTurns ==
    { Turn(Some(Ada), None, Script(0, EvalFailure)),
      Turn(Some(Answer50), None, Script(0, EvalFailure)),
      Turn(Some(Answer12), None, Script(0, OutOfRangeScore)),
      Turn(Some(Answer12), None, Script(0, ShortFeedback)),
      Turn(Some(EmptyText), Some(CorruptFile), Script(0, EvalFailure)),
      Turn(Some(EmptyText), Some(LookupWorkbook), Script(0, ShortFeedback)) }

OutageGenScripts == { Script(0, LLMFailure), Script(0, NoTextQuestion) }

-----------------------------------------------------------------------------
(* The state machine.                                                      *)

NoResult ==
    [ call |-> "none", input_none |-> FALSE,
      ret |-> Return(None, None, None, None, None, None, None),
      phases |-> << >>, generation |-> NoGeneration, evaluation |-> NoEvaluation ]

(* The session's history since InterviewState() was last constructed, for  *)
(* the number of process_response calls made before the interview          *)
(* completed that returned without an error.                               *)
NewLog == [ turns |-> 0 ]

(* InterviewAgent.__init__ (agent.py 50-72)                                *)
Init ==
    /\ \E n \in 1..MaxQuestions :
         LET s == InterviewState(n)
         IN  /\ candidate_name = s.candidate_name
             /\ current_phase = s.current_phase
             /\ question_count = s.question_count
             /\ max_questions = s.max_questions
             /\ current_difficulty = s.current_difficulty
             /\ question_history = s.question_history
             /\ overall_score = s.overall_score
    /\ tested_skills = { }
    /\ evaluator \in BOOLEAN
    /\ result = NoResult
    /\ log = NewLog
    /\ arguments = None
    /\ returned = << >>
    /\ sessions = NoSessions

(* The agent after start_interview (agent.py 76-77): a new InterviewState, *)
(* tested_skills untouched.                                                *)
StartInterviewAgent(agent) ==
    [ agent EXCEPT !.state = [ InterviewState(agent.state.max_questions) EXCEPT
                                 !.current_phase = INTRODUCTION ] ]

Install(agent) ==
    /\ candidate_name' = agent.state.candidate_name
    /\ current_phase' = agent.state.current_phase
    /\ question_count' = agent.state.question_count
    /\ max_questions' = agent.state.max_questions
    /\ current_difficulty' = agent.state.current_difficulty
    /\ question_history' = agent.state.question_history
    /\ overall_score' = agent.state.overall_score
    /\ tested_skills' = agent.tested_skills

(* InterviewAgent.start_interview (agent.py 74-98)                         *)
StartInterview ==
    /\ Install(StartInterviewAgent(Agent))
    /\ result' = [ call |-> "start_interview", input_none |-> FALSE,
                   ret |-> Return(None, Some(INTRODUCTION), Some("await_name"), None,
                                  None, None, None),
                   phases |-> << INTRODUCTION >>,
                   generation |-> NoGeneration, evaluation |-> NoEvaluation ]
    /\ log' = NewLog
    /\ UNCHANGED << evaluator, arguments, returned, sessions >>

LogAfter(out) ==
    IF current_phase = COMPLETED THEN log
    ELSE IF IsNone(out.ret.error) THEN [ log EXCEPT !.turns = log.turns + 1 ]
    ELSE log

(* Whether a call made now reaches the evaluation, the generation.         *)
WillEvaluate == current_phase = QUESTIONING

WillGenerate ==
    \/ current_phase = INTRODUCTION
    \/ current_phase = QUESTIONING /\ question_count < max_questions

(* The turns and scripts that differ in something the call will read.      *)
Inputs(turns) == { Turn(t.user_input, t.uploaded_file, Script(0, EvalFailure)) : t \in turns }

Relevant(turns) ==
    IF WillEvaluate THEN turns
    ELSE IF current_phase = INTRODUCTION THEN Inputs(turns)
    ELSE { CHOOSE t \in Inputs(turns) : TRUE }

RelevantScripts(genScripts) ==
    IF WillGenerate THEN genScripts ELSE { CHOOSE g \in genScripts : TRUE }

(* InterviewAgent.process_response (agent.py 100-119), one whole call,     *)
(* with its arguments and the model's answers drawn from the given sets.   *)
Committed(out, turn) ==
    /\ Install(out.agent)
    /\ result' = [ call |-> "process_response",
                   input_none |-> IsNone(turn.user_input),
                   ret |-> out.ret, phases |-> out.phases,
                   generation |-> out.generation, evaluation |-> out.evaluation ]
    /\ log' = LogAfter(out)

Commit(out, turn) ==
    /\ Committed(out, turn)
    /\ UNCHANGED << evaluator, arguments, returned, sessions >>

ProcessResponse(turns, genScripts) ==
    \E turn \in Relevant(turns), genScript \in RelevantScripts(genScripts) :
      Commit(ProcessResponseOutcome(Agent, evaluator, turn.user_input,
                                    turn.uploaded_file, genScript, turn.evalScript),
             turn)

Next == StartInterview \/ ProcessResponse(Turns, GenScripts)

Spec == Init /\ [][Next]_vars

(* The same agent while the model is unavailable.                          *)
NextOutage == StartInterview \/ ProcessResponse(OutageTurns, OutageGenScripts)

SpecOutage == Init /\ [][NextOutage]_vars

(* The agent as src/app.py drives it: constructed with an evaluator and    *)
(* the source's max_questions, start_interview called once before the      *)
(* first turn, then one process_response per submitted name or answer.     *)
\* max_questions: int = 5
default_max_questions == 5

DefaultTurns ==
    { Turn(Some(Ada), None, Script(0, HighScore)),
      Turn(Some(Ada), None, Script(0, LowScore)),
      Turn(Some(Answer12), None, Script(0, OutOfRangeScore)) }

DefaultGenScripts == { Script(0, QuestionA), Script(0, NoTextQuestion) }

InitDefault ==
    /\ candidate_name = None
    /\ current_phase = INTRODUCTION
    /\ question_count = 0
    /\ max_questions = default_max_questions
    /\ current_difficulty = 2
    /\ question_history = << >>
    /\ overall_score = None
    /\ tested_skills = { }
    /\ evaluator = TRUE
    /\ result = NoResult
    /\ log = NewLog
    /\ arguments = None
    /\ returned = << >>
    /\ sessions = NoSessions

StartInterviewOnce ==
    /\ result.call = "none"
    /\ StartInterview

NextDefault == StartInterviewOnce \/ ProcessResponse(DefaultTurns, DefaultGenScripts)

SpecDefault == InitDefault /\ [][NextDefault]_vars

-----------------------------------------------------------------------------
(* Properties.                                                             *)

PhaseRank(p) ==
    CASE p = INTRODUCTION -> 1
      [] p = QUESTIONING  -> 2
      [] p = WRAP_UP      -> 3
      [] p = COMPLETED    -> 4

(* The values current_phase takes during a step, the starting one first.   *)
PhasePath == << current_phase >> \o result'.phases

NeverBackward(path) ==
    \A i \in 1..(Len(path) - 1) : PhaseRank(path[i + 1]) >= PhaseRank(path[i])

CompletedOnlyAfterWrapUp(path) ==
    \A i \in 2..Len(path) :
        path[i] = COMPLETED /\ path[i - 1] # COMPLETED => path[i - 1] = WRAP_UP

ForwardStep ==
    /\ PhasePath[Len(PhasePath)] = current_phase'
    /\ NeverBackward(PhasePath)
    /\ CompletedOnlyAfterWrapUp(PhasePath)

(* C1 as stated: over any sequence of start_interview and process_response *)
(* calls the phase never moves to an earlier phase and reaches Completed   *)
(* only through WrapUp.                                                    *)
C1_PhaseForwardAnyCall == [][ForwardStep]_vars

(* C1 amended: every process_response call moves the phase forward only,   *)
(* along Introduction -> Questioning -> WrapUp -> Completed, and reaches   *)
(* Completed only through WrapUp; start_interview puts the phase back to   *)
(* Introduction from any phase.                                            *)
C1_PhaseForwardWithinSession ==
    [][ /\ result'.call = "process_response" => ForwardStep
        /\ result'.call = "start_interview" => current_phase' = INTRODUCTION ]_vars

C1_Witness ==
    /\ result.call = "process_response"
    /\ result.phases = << WRAP_UP, COMPLETED >>
    /\ current_phase = COMPLETED

(* C2: question_count grows by exactly 1 per generated question (one       *)
(* record appended), it never exceeds max_questions, and exactly           *)
(* max_questions questions have been generated when the session enters     *)
(* WrapUp.                                                                 *)
C2_CountInvariant ==
    /\ question_count <= max_questions
    /\ question_count = Len(question_history)

C2_CountStep ==
    result'.call = "process_response" =>
        /\ IF IsNone(result'.generation)
           THEN question_count' = question_count
                /\ Len(question_history') = Len(question_history)
           ELSE question_count' = question_count + 1
                /\ Len(question_history') = Len(question_history) + 1
        /\ WRAP_UP \in Range(result'.phases) =>
               /\ question_count' = max_questions
               /\ Len(question_history') = max_questions

C2_QuestionCount == [](C2_CountInvariant) /\ [][C2_CountStep]_vars

C2_Witness ==
    /\ current_phase = COMPLETED
    /\ max_questions >= 2
    /\ question_count = max_questions
    /\ WRAP_UP \in Range(result.phases)

(* C3: current_difficulty is in 1..5 in every state, and a call that       *)
(* scored an answer with score s leaves it at min(5, old+1) if s >= 8.5,   *)
(* at max(1, old-1) if s <= 4.0, and at old otherwise.                     *)
C3_AdaptStep ==
    result'.call = "process_response" /\ ~IsNone(result'.evaluation) =>
        LET s == Val(question_history'[Len(question_history)].score)
        IN  current_difficulty' =
                IF s >= 85 THEN (IF current_difficulty + 1 > 5 THEN 5
                                 ELSE current_difficulty + 1)
                ELSE IF s <= 40 THEN (IF current_difficulty - 1 < 1 THEN 1
                                      ELSE current_difficulty - 1)
                ELSE current_difficulty

C3_Difficulty == [](current_difficulty \in 1..5) /\ [][C3_AdaptStep]_vars

\* four answers scored 8.5 or more in a row: 2 -> 3 -> 4 -> 5 -> 5
C3_Witness ==
    /\ Len(question_history) >= 4
    /\ \A i \in 1..4 : /\ ~IsNone(question_history[i].score)
                       /\ Val(question_history[i].score) >= 85
    /\ current_difficulty = 5

(* C4: in a process_response call current_difficulty changes only in the   *)
(* adaptation step that follows a scored answer, and by one level at most: *)
(* a call that scored nothing (the name turn, a rejected input, a call     *)
(* after completion) leaves it unchanged, and the generation (by the model *)
(* or by fallback) and the wrap-up that follow the adaptation leave the    *)
(* adapted value in place.                                                 *)
C4_DifficultyFrameStep ==
    result'.call = "process_response" =>
        /\ IsNone(result'.evaluation) => current_difficulty' = current_difficulty
        /\ ~IsNone(result'.ret.error) => current_difficulty' = current_difficulty
        /\ current_difficulty' - current_difficulty \in { -1, 0, 1 }
        /\ current_difficulty' # current_difficulty =>
               LET s == Val(question_history'[Len(question_history)].score)
               IN  s >= 85 \/ s <= 40
        /\ ~IsNone(result'.generation) =>
               current_difficulty' = Val(result'.generation).difficulty

C4_DifficultyFrame == [][C4_DifficultyFrameStep]_vars

\* a fallback question generated after the adaptation raised the difficulty
C4_Witness ==
    /\ result.call = "process_response"
    /\ ~IsNone(result.evaluation)
    /\ ~IsNone(result.generation)
    /\ Val(result.generation).fallback
    /\ current_difficulty = 3
    /\ question_history[Len(question_history)].difficulty_level = 3

ScoredRecords ==
    { i \in 1..Len(question_history) : ~IsNone(question_history[i].score) }

RECURSIVE ScoreTotal(_)
ScoreTotal(S) ==
    IF S = { } THEN 0
    ELSE LET i == CHOOSE j \in S : TRUE
         IN  Val(question_history[i].score) + ScoreTotal(S \ { i })

(* C5: in Completed, overall_score is the arithmetic mean of the scores of *)
(* the records that have one (0 when there is none), and computing it      *)
(* again from the history gives the stored value.                          *)
C5_OverallIsMean ==
    current_phase = COMPLETED =>
        /\ ~IsNone(overall_score)
        /\ Val(overall_score).den > 0
        /\ IF ScoredRecords = { }
           THEN Val(overall_score).num = 0
           ELSE Val(overall_score).num * Cardinality(ScoredRecords)
                    = ScoreTotal(ScoredRecords) * Val(overall_score).den
        /\ OverallScore(question_history) = Val(overall_score)

\* a score of 0.0 is averaged in with a higher one
C5_Witness ==
    /\ current_phase = COMPLETED
    /\ Len(question_history) = 2
    /\ question_history[1].score = Some(0)
    /\ question_history[2].score = Some(85)
    /\ overall_score = Some([ num |-> 85, den |-> 2 ])

(* C6: every score stored on a record is in [0, 10], whichever path        *)
(* produced it (model, text heuristic, file heuristic, hard file failure,  *)
(* evaluation given up).                                                   *)
C6_ScoresInRange ==
    \A i \in 1..Len(question_history) :
        ~IsNone(question_history[i].score) =>
            /\ Val(question_history[i].score) >= 0
            /\ Val(question_history[i].score) <= 100

\* a given-up evaluation (0.0) followed by an unreadable file (floor 1.0)
C6_Witness ==
    /\ Len(question_history) = 2
    /\ question_history[1].score = Some(0)
    /\ question_history[2].score = Some(10)
    /\ result.call = "process_response"
    /\ ~IsNone(result.evaluation)
    /\ Val(result.evaluation).path = "analysis_heuristic"

(* C7: while the model is unavailable every call made before completion    *)
(* returns without an error, the session is Completed exactly after the    *)
(* name turn and max_questions answer turns, and every answered question   *)
(* has a score and a feedback.                                             *)
C7_Answered(i) ==
    /\ ~IsNone(question_history[i].score)
    /\ ~IsNone(question_history[i].feedback)
    /\ Val(question_history[i].feedback) # << >>

C7_OutageInvariant ==
    /\ log.turns <= max_questions + 1
    /\ log.turns = max_questions + 1 <=> current_phase = COMPLETED
    /\ \A i \in 1..Len(question_history) :
           i < Len(question_history) \/ current_phase = COMPLETED => C7_Answered(i)

C7_OutageStep ==
    result'.call = "process_response" /\ current_phase # COMPLETED =>
        /\ IsNone(result'.ret.error)
        /\ log'.turns = log.turns + 1

C7_NeverHalts == [](C7_OutageInvariant) /\ [][C7_OutageStep]_vars

C7_Witness ==
    /\ current_phase = COMPLETED
    /\ max_questions = 2
    /\ log.turns = 3
    /\ \A i \in 1..2 : question_history[i].question_text = basic_question_text
    /\ ~IsNone(result.evaluation)
    /\ Val(result.evaluation).path = "text_heuristic"

C9_ErrorsTagged ==
    result.call = "process_response" /\ ~IsNone(result.ret.error) =>
        result.ret.phase = Some(current_phase)

(* C10: a process_response call that returns an error result leaves        *)
(* InterviewState equal to its value before the call.                      *)
C10_ErrorLeavesState ==
    [][ result'.call = "process_response" /\ ~IsNone(result'.ret.error) =>
            UNCHANGED stateVars ]_vars

\* the name turn rejected a name that is not a str
C10_Witness ==
    /\ result.call = "process_response"
    /\ result.ret.error = Some("An error occurred")
    /\ result.input_none
    /\ current_phase = INTRODUCTION
    /\ IsNone(candidate_name)

(* C11: in every state between calls (after a call that returned an error  *)
(* too) a record has a score if and only if it has a feedback.             *)
C11_ScoreIffFeedback ==
    \A i \in 1..Len(question_history) :
        IsNone(question_history[i].score) <=> IsNone(question_history[i].feedback)

\* after an error result: one record evaluated, with score and feedback
C11_Witness ==
    /\ result.call = "process_response"
    /\ ~IsNone(result.ret.error)
    /\ Len(question_history) >= 1
    /\ ~IsNone(question_history[1].score)
    /\ ~IsNone(question_history[1].feedback)

(* C12: a record that has not been evaluated has no score, no feedback, no *)
(* strengths and no improvements, and no process_response call changes a   *)
(* record that already has its score.                                      *)
C12_UnsetUntilEvaluated ==
    \A i \in 1..Len(question_history) :
        IsNone(question_history[i].score) =>
            /\ IsNone(question_history[i].feedback)
            /\ question_history[i].strengths = << >>
            /\ question_history[i].improvements = << >>
            /\ i = Len(question_history)

C12_EvaluatedOnceStep ==
    result'.call = "process_response" =>
        \A i \in 1..Len(question_history) :
            ~IsNone(question_history[i].score) =>
                /\ i <= Len(question_history')
                /\ question_history'[i] = question_history[i]

C12_SetOnce == [](C12_UnsetUntilEvaluated) /\ [][C12_EvaluatedOnceStep]_vars

\* the first record kept its evaluation while a later turn scored the second
C12_Witness ==
    /\ result.call = "process_response"
    /\ ~IsNone(result.evaluation)
    /\ Len(question_history) = 2
    /\ question_history[1].score = Some(85)
    /\ question_history[1].strengths = << "Clear example" >>
    /\ question_history[2].score = Some(40)

(* The candidate list of a generation request made in the current state:   *)
(* the catalog entries not yet tested, the whole catalog if there is none. *)
CandidateSkills ==
    LET untested == { skill_areas[k] : k \in { j \in 1..7 : skill_areas[j] \notin tested_skills } }
    IN  IF untested = { } THEN { skill_areas[k] : k \in 1..7 } ELSE untested

(* C13: every record appended by a generation, whatever the model answered *)
(* and on the fallback path, has a non-empty text, a type among text,      *)
(* excel_upload and scenario, and a skill area of the candidate list of    *)
(* that generation request.                                                *)
C13_AppendedRecordStep ==
    result'.call = "process_response" /\ ~IsNone(result'.generation) =>
        LET q == question_history'[Len(question_history')]
        IN  /\ Len(question_history') = Len(question_history) + 1
            /\ q.question_text # ""
            /\ q.question_type \in { "text", "excel_upload", "scenario" }
            /\ q.skill_area \in CandidateSkills

C13_AppendedRecordValid == [][C13_AppendedRecordStep]_vars

\* a model answer accepted with its type and its already tested skill replaced
C13_Witness ==
    /\ result.call = "process_response"
    /\ ~IsNone(result.generation)
    /\ ~Val(result.generation).fallback
    /\ Len(question_history) = 2
    /\ question_history[1].skill_area = skill_areas[7]
    /\ question_history[2].skill_area = skill_areas[1]
    /\ question_history[2].question_type = "text"
    /\ question_history[2].question_text = "Build a pivot table."

(* C14: an uploaded file that load_workbook cannot open is scored exactly  *)
(* 2.0 with no strengths and the fixed file-format improvements, without   *)
(* any model call and without the analysis-based heuristic.                *)
C14_UnreadableFileShortCircuits ==
    result.call = "process_response" /\ ~IsNone(result.evaluation) /\ evaluator =>
        LET i == IF IsNone(result.generation) THEN Len(question_history)
                 ELSE Len(question_history) - 1
            q == question_history[i]
        IN  Truthy(q.file_upload) /\ ~Val(q.file_upload).workbook =>
                /\ q.score = Some(20)
                /\ q.strengths = << >>
                /\ q.improvements =
                       << "Verify file format and structure",
                          "Ensure file is not corrupted",
                          "Try uploading the file again" >>
                /\ Val(result.evaluation).calls = 0
                /\ Val(result.evaluation).path \notin { "llm", "analysis_heuristic" }

-----------------------------------------------------------------------------
(* Direct calls of AnswerEvaluator._create_basic_text_evaluation on the    *)
(* answers of at most MaxWords words over a small vocabulary.              *)

\* the longest answer handed to the text heuristic
MaxWords == 3

Vocabulary ==
    { "the", "formulas", "worksheet", "ExcelDataChart", "CellRangeFormulaFunction" }

ShortAnswers == UNION { [ 1..n -> Vocabulary ] : n \in 0..MaxWords }

\* n more words without a keyword
Padding(n) == [ i \in 1..n |-> "the" ]

\* paddings that take the short answers up to 10, 25 and 50 words
PadLengths == { 0, 7, 22, 47 }

Answers == { a \o Padding(n) : a \in ShortAnswers, n \in PadLengths }

(* the agent as constructed, not driven                                    *)
AgentIdle ==
    /\ candidate_name = None
    /\ current_phase = INTRODUCTION
    /\ question_count = 0
    /\ max_questions = default_max_questions
    /\ current_difficulty = 2
    /\ question_history = << >>
    /\ overall_score = None
    /\ tested_skills = { }
    /\ evaluator = TRUE
    /\ result = NoResult
    /\ log = NewLog

InitTextHeuristic ==
    /\ AgentIdle
    /\ arguments \in { Some([ answer |-> a ]) : a \in Answers }
    /\ returned = << >>
    /\ sessions = NoSessions

CreateBasicTextEvaluationCall ==
    /\ returned = << >>
    /\ returned' = << CreateBasicTextEvaluation(Val(arguments).answer) >>
    /\ UNCHANGED << stateVars, tested_skills, evaluator, result, log, arguments,
                 sessions >>

NextTextHeuristic == CreateBasicTextEvaluationCall

SpecTextHeuristic == InitTextHeuristic /\ [][NextTextHeuristic]_vars

(* C15 as stated: the text heuristic gives every answer of fewer than 10   *)
(* words a score <= 4.0, whatever keywords it contains, within [1, 10].    *)
C15_ShortAnswerAtMostFour ==
    returned # << >> /\ Len(Split(Val(arguments).answer)) < 10 =>
        /\ returned[1].score <= 40
        /\ returned[1].score >= 10
        /\ returned[1].score <= 100

(* C15 amended: the text heuristic gives an answer of fewer than 10 words  *)
(* the score 3.0 + min(2.0, 0.3 * k), k the number of distinct keywords    *)
(* found in it: at most 5.0, and at most 4.0 exactly when k <= 3.          *)
C15_ShortAnswerAtMostFive ==
    returned # << >> /\ Len(Split(Val(arguments).answer)) < 10 =>
        LET k == Cardinality({ t \in Range(excel_terms) :
                                 \E i \in 1..Len(Val(arguments).answer) :
                                     t \in TermsOfWord(Val(arguments).answer[i]) })
        IN  /\ returned[1].score = 30 + (IF 3 * k > 20 THEN 20 ELSE 3 * k)
            /\ returned[1].score >= 30
            /\ returned[1].score <= 50
            /\ returned[1].score <= 40 <=> k <= 3

\* three words holding all eight keywords: 3.0 + 2.0
C15_Witness ==
    /\ returned # << >>
    /\ Len(Split(Val(arguments).answer)) = 3
    /\ returned[1].score = 50

-----------------------------------------------------------------------------
(* evaluation.py create_performance_report and its helpers.  Scores are    *)
(* tenths; a mean is the exact fraction num / den.                         *)

(* round(m, 1) in tenths: the nearest integer to num / den, a tie going to *)
(* the even one (what Python gives for means of multiples of 0.5, whose    *)
(* ties are exact in binary).                                              *)
Round1_HalfUp(m) ==
    LET q == m.num \div m.den
        r == m.num % m.den
    IN  IF 2 * r < m.den THEN q ELSE q + 1

Round1(m) ==
    LET q == m.num \div m.den
        r == m.num % m.den
    IN  IF 2 * r < m.den THEN q
        ELSE IF 2 * r > m.den THEN q + 1
        ELSE IF q % 2 = 0 THEN q ELSE q + 1

(* _get_performance_level with Advanced starting above 7.0.                *)
GetPerformanceLevel_Above(m) ==
    IF m.num >= 85 * m.den THEN "Expert"
    ELSE IF m.num > 70 * m.den THEN "Advanced"
    ELSE IF m.num >= 50 * m.den THEN "Intermediate"
    ELSE IF m.num >= 30 * m.den THEN "Beginner"
    ELSE "Needs Improvement"

(* evaluation.py 507-518 _get_performance_level                            *)
GetPerformanceLevel(m) ==
    IF m.num >= 85 * m.den THEN "Expert"
    ELSE IF m.num >= 70 * m.den THEN "Advanced"
    ELSE IF m.num >= 50 * m.den THEN "Intermediate"
    ELSE IF m.num >= 30 * m.den THEN "Beginner"
    ELSE "Needs Improvement"

(* list(set(xs)): the distinct elements in the order the hash seed of the  *)
(* process gives them; two of the orders are modelled.                     *)
RECURSIVE Enumerate(_)
Enumerate(S) ==
    IF S = { } THEN << >>
    ELSE LET x == CHOOSE y \in S : TRUE IN << x >> \o Enumerate(S \ { x })

RECURSIVE Reverse(_)
Reverse(xs) == IF xs = << >> THEN << >> ELSE Append(Reverse(Tail(xs)), Head(xs))

HashSeeds == { 1, 2 }

(* list(set(xs)) that loses the last element under the second seed.       *)
ListOfSet_Lossy(xs, seed) ==
    IF seed = 1 THEN Enumerate(Range(xs))
    ELSE IF xs = << >> THEN << >> ELSE Tail(Enumerate(Range(xs)))

ListOfSet(xs, seed) ==
    IF seed = 1 THEN Enumerate(Range(xs)) ELSE Reverse(Enumerate(Range(xs)))

(* the concatenation of a list of lists                                    *)
RECURSIVE Extend(_)
Extend(lists) == IF lists = << >> THEN << >> ELSE Head(lists) \o Extend(Tail(lists))

(* the keys of a dict filled in the order of xs                            *)
RECURSIVE Keys(_)
Keys(xs) ==
    IF xs = << >> THEN << >>
    ELSE LET front == Keys(SubSeq(xs, 1, Len(xs) - 1))
         IN  IF xs[Len(xs)] \in Range(front) THEN front
             ELSE Append(front, xs[Len(xs)])

Count(x, xs) == Cardinality({ i \in 1..Len(xs) : xs[i] = x })

(* evaluation.py 440-455: one skill's entry of the breakdown               *)
SkillData(questions, skill) ==
    LET ofSkill == SelectSeq(questions, LAMBDA q : q.skill_area = skill)
    IN  [ scores        |-> RecordedScores(ofSkill),
          questions     |-> Len(ofSkill),
          average_score |-> Mean(RecordedScores(ofSkill)) ]

SkillsOf(questions) == Keys([ i \in 1..Len(questions) |-> questions[i].skill_area ])

(* evaluation.py 540-548: the keyword found in skill.lower()               *)
SkillRecommendation(skill) ==
    CASE skill = skill_areas[2] ->
             << "Practice VLOOKUP, INDEX/MATCH functions with different datasets" >>
      [] skill = skill_areas[3] ->
             << "Create pivot tables with various data sources and analyze trends" >>
      [] skill = skill_areas[6] ->
             << "Learn different chart types and when to use each effectively" >>
      [] skill = skill_areas[5] ->
             << "Study array formulas and nested function combinations" >>
      [] OTHER -> << >>

(* evaluation.py 552-556: 'example', else 'detail', in improvement.lower() *)
ImprovementRecommendation(improvement) ==
    CASE improvement =
             "Consider providing more detailed explanations with specific Excel examples" ->
             << "Practice explaining Excel concepts with real-world examples" >>
      [] improvement = "Consider providing more specific details" ->
             << "Work on providing more comprehensive explanations" >>
      [] improvement = "Add more detail" ->
             << "Work on providing more comprehensive explanations" >>
      [] OTHER -> << >>

(* evaluation.py 521-558 _generate_recommendations                         *)
GenerateRecommendations(overall, questions, improvements, seed) ==
    LET band ==
            IF overall.num < 50 * overall.den
            THEN << "Start with Excel basics: cell references, simple formulas, and basic functions",
                    "Practice using SUM, AVERAGE, COUNT functions regularly" >>
            ELSE IF overall.num < 70 * overall.den
            THEN << "Focus on intermediate Excel features like VLOOKUP and pivot tables",
                    "Learn conditional formatting and data validation" >>
            ELSE << "Explore advanced Excel features like Power Query and Power Pivot",
                    "Consider learning VBA for automation" >>
        \* average_score < overall - 1.0
        Weak(skill) ==
            LET a == SkillData(questions, skill).average_score
            IN  a.num * overall.den
                    < (overall.num - 10 * overall.den) * a.den
        weak_skills == SelectSeq(SkillsOf(questions), Weak)
        common_improvements ==
            SelectSeq(improvements, LAMBDA imp : Count(imp, improvements) > 1)
        top == SubSeq(common_improvements, 1, Min(3, Len(common_improvements)))
    IN  ListOfSet(
            band
            \o Extend([ i \in 1..Len(weak_skills) |-> SkillRecommendation(weak_skills[i]) ])
            \o Extend([ i \in 1..Len(top) |-> ImprovementRecommendation(top[i]) ]),
            seed)

(* evaluation.py 427: not interview_data.get('question_history'), taken    *)
(* as "no record has a score".                                             *)
NoInterviewData_Unscored(interview_data) ==
    RecordedScores(interview_data.question_history) = << >>

(* evaluation.py 427: not interview_data.get('question_history')           *)
NoInterviewData(interview_data) == interview_data.question_history = << >>

DetailedQuestion(i, q) ==
    [ question_number  |-> i,
      question_text    |-> q.question_text,
      skill_area       |-> q.skill_area,
      difficulty_level |-> q.difficulty_level,
      score            |-> q.score,
      feedback         |-> q.feedback,
      strengths        |-> q.strengths,
      improvements     |-> q.improvements ]

(* evaluation.py 424-504 create_performance_report; now is the clock       *)
(* reading and seed the hash seed of the process.                          *)
CreatePerformanceReport(interview_data, now, seed) ==
    IF NoInterviewData(interview_data)
    THEN [ error |-> Some("No interview data available"), report |-> None ]
    ELSE
        LET questions     == interview_data.question_history
            overall       == Mean(RecordedScores(questions))
            skills        == Range(SkillsOf(questions))
            all_strengths ==
                Extend([ i \in 1..Len(questions) |-> questions[i].strengths ])
            all_improvements ==
                Extend([ i \in 1..Len(questions) |-> questions[i].improvements ])
        IN  [ error  |-> None,
              report |-> Some(
                [ candidate_name      |-> interview_data.candidate_name,
                  session_id          |-> interview_data.session_id,
                  interview_date      |-> now,
                  overall_score       |-> Round1(overall),
                  performance_level   |-> GetPerformanceLevel(overall),
                  total_questions     |-> Len(questions),
                  questions_completed |-> Len(RecordedScores(questions)),
                  skill_breakdown     |->
                      [ skill \in skills |->
                          [ average_score     |->
                                Round1(SkillData(questions, skill).average_score),
                            questions_asked   |-> SkillData(questions, skill).questions,
                            performance_level |->
                                GetPerformanceLevel(
                                    SkillData(questions, skill).average_score) ] ],
                  strengths           |-> ListOfSet(all_strengths, seed),
                  improvements        |-> ListOfSet(all_improvements, seed),
                  recommendations     |->
                      GenerateRecommendations(overall, questions,
                                              all_improvements, seed),
                  detailed_questions  |->
                      [ i \in 1..Len(questions) |-> DetailedQuestion(i, questions[i]) ] ]) ]

-----------------------------------------------------------------------------
(* Direct calls of create_performance_report on the summaries of sessions  *)
(* of at most MaxRecords questions.                                        *)

\* the longest history handed to the report builder
MaxRecords == 3

\* how many times a report is built from one summary
MaxCalls == 2

\* the clock readings of datetime.now()
Clock == { 1, 2 }

(* what evaluation left on a record: skill, score, feedback, lists         *)
Evaluated(skill, score, feedback, strengths, improvements) ==
    [ skill_area |-> skill, score |-> score, feedback |-> feedback,
      strengths |-> strengths, improvements |-> improvements ]

RecordKinds ==
    { Evaluated(skill_areas[2], Some(85), Some(llm_feedback),
                << "Clear example" >>, << "Add more detail" >>),
      Evaluated(skill_areas[2], Some(40), Some(llm_feedback),
                << "Shows understanding of the topic" >>,
                << "Consider providing more specific details" >>),
      Evaluated(skill_areas[3], Some(55), Some(basic_feedback),
                << "Provided a response to the question" >>,
                << "Consider providing more detailed explanations with specific Excel examples" >>),
      Evaluated(skill_areas[3], None, None, << >>, << >>),
      Evaluated(skill_areas[1], Some(100), Some(llm_feedback),
                << "Clear example" >>, << "Add more detail" >>),
      Evaluated(skill_areas[6], Some(10), Some(llm_feedback),
                << >>,
                << "Ensure file is in correct Excel format (.xlsx or .xls)",
                   "Add more detail" >>) }

(* agent.py 420-432: a record as get_interview_summary lists it            *)
SummaryRecord(i, e) ==
    [ question_id      |-> i,
      question_text    |-> basic_question_text,
      question_type    |-> "text",
      difficulty_level |-> 2,
      skill_area       |-> e.skill_area,
      score            |-> e.score,
      feedback         |-> e.feedback,
      strengths        |-> e.strengths,
      improvements     |-> e.improvements ]

(* agent.py 413-436: the keys of the summary that the report reads         *)
InterviewData(kinds) ==
    [ session_id       |-> "interview_20250101_120000",
      candidate_name   |-> Some(Strip(Ada)),
      question_history |-> [ i \in 1..Len(kinds) |-> SummaryRecord(i, kinds[i]) ] ]

\* scores of 8.4, 8.5 and 8.5 on one skill: the mean lies between 8.45 and 8.5
NearExpertHistory ==
    << Evaluated(skill_areas[2], Some(84), Some(llm_feedback),
                 << "Clear example" >>, << "Add more detail" >>),
       Evaluated(skill_areas[2], Some(85), Some(llm_feedback),
                 << "Clear example" >>, << "Add more detail" >>),
       Evaluated(skill_areas[2], Some(85), Some(llm_feedback),
                 << "Clear example" >>, << "Add more detail" >>) >>

Histories ==
    UNION { [ 1..n -> RecordKinds ] : n \in 0..MaxRecords }
        \cup { NearExpertHistory }

InitReport ==
    /\ AgentIdle
    /\ arguments \in { Some([ interview_data |-> InterviewData(h) ]) : h \in Histories }
    /\ returned = << >>
    /\ sessions = NoSessions

CreatePerformanceReportCall ==
    /\ Len(returned) < MaxCalls
    /\ \E now \in Clock, seed \in HashSeeds :
           returned' = Append(returned,
                              CreatePerformanceReport(Val(arguments).interview_data,
                                                      now, seed))
    /\ UNCHANGED << stateVars, tested_skills, evaluator, result, log, arguments,
                 sessions >>

NextReport == CreatePerformanceReportCall

SpecReport == InitReport /\ [][NextReport]_vars

\* the summary every call of a behaviour was given
Snapshot == Val(arguments).interview_data

\* the exact mean of the recorded scores of the records selected
MeanOf(questions) == Mean(RecordedScores(questions))

\* r is num / den rounded to the nearest integer, a tie to the even one
IsRounded(r, m) ==
    /\ 2 * r * m.den - 2 * m.num <= m.den
    /\ 2 * m.num - 2 * r * m.den <= m.den
    /\ (2 * r * m.den - 2 * m.num = m.den \/ 2 * m.num - 2 * r * m.den = m.den)
           => r % 2 = 0

(* C16: create_performance_report returns the no-data error with an empty  *)
(* report exactly when the history is empty; every non-empty history, also *)
(* one whose records have no score, gets a report and no error.            *)
C16_NoDataIffEmpty ==
    \A k \in 1..Len(returned) :
        /\ (returned[k].error = Some("No interview data available")
                /\ IsNone(returned[k].report))
               <=> Snapshot.question_history = << >>
        /\ Snapshot.question_history # << >> =>
               IsNone(returned[k].error) /\ ~IsNone(returned[k].report)

\* a report built from records none of which has a score
C16_Witness ==
    /\ returned # << >>
    /\ Snapshot.question_history # << >>
    /\ RecordedScores(Snapshot.question_history) = << >>
    /\ IsNone(returned[1].error)
    /\ Val(returned[1].report).total_questions = Len(Snapshot.question_history)
    /\ Val(returned[1].report).questions_completed = 0

\* the breakdown's keys and question counts are those of the history
BreakdownCounts(report, questions) ==
    /\ DOMAIN report.skill_breakdown = { questions[i].skill_area : i \in 1..Len(questions) }
    /\ \A skill \in DOMAIN report.skill_breakdown :
           report.skill_breakdown[skill].questions_asked =
               Cardinality({ i \in 1..Len(questions) : questions[i].skill_area = skill })

(* C17 as stated: skill_breakdown has exactly the distinct skill areas of  *)
(* the history, questions_asked counts the records of the skill, and       *)
(* average_score equals the mean of the skill's recorded scores.           *)
C17_AverageIsMean ==
    \A k \in 1..Len(returned) :
        ~IsNone(returned[k].report) =>
            LET report == Val(returned[k].report)
                questions == Snapshot.question_history
            IN  /\ BreakdownCounts(report, questions)
                /\ \A skill \in DOMAIN report.skill_breakdown :
                       LET m == MeanOf(SelectSeq(questions,
                                                 LAMBDA q : q.skill_area = skill))
                       IN  report.skill_breakdown[skill].average_score * m.den = m.num

(* C17 amended: the keys and questions_asked are as stated; average_score  *)
(* is the mean of the skill's recorded scores rounded to one decimal (a    *)
(* tie to the even digit), and 0 for a skill none of whose records has a   *)
(* score.                                                                  *)
C17_AverageIsRoundedMean ==
    \A k \in 1..Len(returned) :
        ~IsNone(returned[k].report) =>
            LET report == Val(returned[k].report)
                questions == Snapshot.question_history
            IN  /\ BreakdownCounts(report, questions)
                /\ \A skill \in DOMAIN report.skill_breakdown :
                       LET ofSkill == SelectSeq(questions,
                                                LAMBDA q : q.skill_area = skill)
                       IN  IF RecordedScores(ofSkill) = << >>
                           THEN report.skill_breakdown[skill].average_score = 0
                           ELSE IsRounded(report.skill_breakdown[skill].average_score,
                                          MeanOf(ofSkill))

\* one skill asked twice, 8.5 and 4.0: the mean 6.25 is reported as 6.2
C17_Witness ==
    /\ returned # << >>
    /\ ~IsNone(returned[1].report)
    /\ Len(Snapshot.question_history) = 3
    /\ skill_areas[2] \in DOMAIN Val(returned[1].report).skill_breakdown
    /\ Val(returned[1].report).skill_breakdown[skill_areas[2]].questions_asked = 2
    /\ Val(returned[1].report).skill_breakdown[skill_areas[2]].average_score = 62
    /\ skill_areas[3] \in DOMAIN Val(returned[1].report).skill_breakdown
    /\ Val(returned[1].report).skill_breakdown[skill_areas[3]].average_score = 0

\* the summary of a completed session: questions asked, every one scored
CompletedSession ==
    /\ Snapshot.question_history # << >>
    /\ \A i \in 1..Len(Snapshot.question_history) :
           ~IsNone(Snapshot.question_history[i].score)

(* C18 as stated: for a completed session the report's overall_score       *)
(* equals the mean of the recorded scores, the session's overall score,    *)
(* and its performance_level is "Advanced" when that mean is exactly 7.0.  *)
C18_OverallIsMean ==
    \A k \in 1..Len(returned) :
        CompletedSession =>
            LET report == Val(returned[k].report)
                m == OverallScore(Snapshot.question_history)
            IN  /\ report.overall_score * m.den = m.num
                /\ m.num = 70 * m.den => report.performance_level = "Advanced"

(* C18 amended: for a completed session the report's overall_score is the  *)
(* mean of the recorded scores rounded to one decimal (a tie to the even   *)
(* digit), and its performance_level, taken from the unrounded mean, is    *)
(* "Advanced" when that mean is exactly 7.0.                               *)
C18_OverallIsRoundedMean ==
    \A k \in 1..Len(returned) :
        CompletedSession =>
            LET report == Val(returned[k].report)
                m == OverallScore(Snapshot.question_history)
            IN  /\ IsRounded(report.overall_score, m)
                /\ m.num = 70 * m.den => report.performance_level = "Advanced"

\* 8.5 and 5.5: the mean is exactly 7.0
C18_Witness ==
    /\ returned # << >>
    /\ CompletedSession
    /\ Len(Snapshot.question_history) = 2
    /\ OverallScore(Snapshot.question_history) = [ num |-> 140, den |-> 2 ]
    /\ Val(returned[1].report).overall_score = 70
    /\ Val(returned[1].report).performance_level = "Advanced"

-----------------------------------------------------------------------------
\* the catalog as a set
Catalog == { skill_areas[k] : k \in 1..7 }

\* the candidate list of the generation request of a step, as a set
Offered == Range(Val(result'.generation).available)

\* tested skills only grow, and a request is offered the untested entries
C20_GrowAndOfferStep ==
    /\ tested_skills \subseteq tested_skills'
    /\ result'.call = "process_response" /\ ~IsNone(result'.generation) =>
           /\ Catalog \ tested_skills # { } => Offered = Catalog \ tested_skills
           /\ Catalog \ tested_skills = { } => Offered = Catalog
           /\ tested_skills' = tested_skills
                  \cup { question_history'[Len(question_history')].skill_area }

(* C20 as stated: tested skills only grow; the candidate list of a         *)
(* generation request is the catalog entries not yet tested, and it is the *)
(* full 7-entry catalog exactly when all 7 have been tested.               *)
C20_FullCatalogOnlyWhenAllTested ==
    [][ /\ C20_GrowAndOfferStep
        /\ result'.call = "process_response" /\ ~IsNone(result'.generation) =>
               (Offered = Catalog <=> Catalog \subseteq tested_skills) ]_vars

(* C20 amended: tested skills only grow; the candidate list of a           *)
(* generation request is the catalog entries not yet tested, or the whole  *)
(* catalog when none is left: it is the full 7-entry catalog exactly when  *)
(* none or all 7 of the entries have been tested.                          *)
C20_FullCatalogWhenNoneOrAllTested ==
    [][ /\ C20_GrowAndOfferStep
        /\ result'.call = "process_response" /\ ~IsNone(result'.generation) =>
               (Offered = Catalog <=>
                    \/ Catalog \cap tested_skills = { }
                    \/ Catalog \subseteq tested_skills) ]_vars

\* a request made with all 7 entries tested, offered the full catalog
C20_Witness ==
    /\ result.call = "process_response"
    /\ ~IsNone(result.generation)
    /\ Len(Val(result.generation).available) = 7
    /\ Catalog \subseteq tested_skills
    /\ Len(question_history) = 2

-----------------------------------------------------------------------------
\* the record the answer of the last call was written on
EvaluatedIndex(res, history) ==
    IF IsNone(res.generation) THEN Len(history) ELSE Len(history) - 1

(* C22: without an evaluator, evaluating an answer fails fast with a       *)
(* configuration error: one attempt, no delay, no score written on the     *)
(* record and the difficulty left as it was.                               *)
C22_NoEvaluatorFailsFast ==
    [][ ~evaluator /\ result'.call = "process_response"
            /\ ~IsNone(result'.evaluation) =>
            /\ Val(result'.evaluation).attempts = 1
            /\ Val(result'.evaluation).sleeps = << >>
            /\ ~IsNone(result'.ret.error)
            /\ IsNone(question_history'[EvaluatedIndex(result', question_history')].score)
            /\ current_difficulty' = current_difficulty ]_vars

-----------------------------------------------------------------------------
(* The agent driven turn by turn while the model fails a number of times   *)
(* before it answers; the arguments of each call and the model's script    *)
(* are kept in `arguments`.                                                *)

\* b"": a supplied file of zero length
EmptyFile == FileBytes(0, FALSE, << >>, 0, "error")

AttemptTurns ==
    { Turn(Some(Ada), None, Script(0, HighScore)),
      Turn(Some(Answer12), None, Script(1, HighScore)),
      Turn(Some(Answer12), None, Script(2, HighScore)),
      Turn(Some(Answer12), None, Script(3, HighScore)),
      Turn(Some(Answer12), None, Script(0, OutOfRangeScore)),
      Turn(Some(EmptyText), Some(LookupWorkbook), Script(1, HighScore)),
      Turn(Some(EmptyText), Some(LookupWorkbook), Script(0, ShortFeedback)),
      Turn(Some(EmptyText), Some(EmptyFile), Script(0, EvalFailure)),
      Turn(None, None, Script(0, EvalFailure)) }

AttemptGenScripts ==
    { Script(0, QuestionA), Script(2, QuestionA), Script(3, QuestionA),
      Script(0, NoTextQuestion) }

InitAttempts ==
    /\ \E n \in 1..MaxQuestions :
         LET s == InterviewState(n)
         IN  /\ candidate_name = s.candidate_name
             /\ current_phase = s.current_phase
             /\ question_count = s.question_count
             /\ max_questions = s.max_questions
             /\ current_difficulty = s.current_difficulty
             /\ question_history = s.question_history
             /\ overall_score = s.overall_score
    /\ tested_skills = { }
    /\ evaluator = TRUE
    /\ result = NoResult
    /\ log = NewLog
    /\ arguments = None
    /\ returned = << >>
    /\ sessions = NoSessions

(* InterviewAgent.process_response (agent.py 100-119), one whole call; the *)
(* call's arguments and scripts are kept.                                  *)
ProcessResponseKept(turns, genScripts) ==
    \E turn \in Relevant(turns), genScript \in RelevantScripts(genScripts) :
      /\ Committed(ProcessResponseOutcome(Agent, evaluator, turn.user_input,
                                          turn.uploaded_file, genScript,
                                          turn.evalScript),
                   turn)
      /\ arguments' = Some([ turn |-> turn, genScript |-> genScript ])
      /\ UNCHANGED << evaluator, returned, sessions >>

NextAttempts == ProcessResponseKept(AttemptTurns, AttemptGenScripts)

SpecAttempts == InitAttempts /\ [][NextAttempts]_vars

\* the delays 1, 2, ..., n
Backoff(n) == [ i \in 1..n |-> i ]

(* C23: one question generation invokes the model at most 3 times, stops   *)
(* at the first response that passes validation, and produces the canned   *)
(* fallback question exactly when all 3 attempts fail; a delay of 1 follows *)
(* the first failed attempt, 2 the second, none the third.                 *)
C23_GenerationAttempts ==
    result.call = "process_response" /\ ~IsNone(result.generation) =>
        LET g      == Val(result.generation)
            script == Val(arguments).genScript
            valid  == HasRequiredFields(script.answer)
            q      == question_history[Len(question_history)]
        IN  /\ g.calls <= 3
            /\ g.calls = (IF valid /\ script.fails < 3 THEN script.fails + 1 ELSE 3)
            /\ g.fallback <=> (~valid \/ script.fails >= 3)
            /\ g.sleeps = Backoff(IF g.fallback THEN 2 ELSE g.calls - 1)
            /\ g.fallback => q.question_text = basic_question_text
            /\ ~g.fallback => q.question_text = script.answer.question_text

\* a question accepted at the third attempt, after delays of 1 and 2
C23_Witness ==
    /\ result.call = "process_response"
    /\ ~IsNone(result.generation)
    /\ Val(arguments).genScript = Script(2, QuestionA)
    /\ Val(result.generation).calls = 3
    /\ Val(result.generation).sleeps = << 1, 2 >>
    /\ ~Val(result.generation).fallback

\* the paths on which a heuristic scorer produced the result
HeuristicPaths == { "text_heuristic", "analysis_heuristic" }

\* what C24 says of the evaluation ev run under the scoring script
ScoringAttempts(ev, script) ==
    LET valid == ValidateEvaluationResponse(script.answer)
    IN  /\ ev.calls <= 3
        /\ ev.path = "llm" => valid /\ ev.calls = script.fails + 1
        /\ ev.path \in HeuristicPaths <=> (~valid \/ script.fails >= 3)
        /\ ev.path \in HeuristicPaths => ev.calls = 3
        /\ ev.path \in HeuristicPaths \cup { "llm" }

C24_StrAnswerScoringAttempts ==
    result.call = "process_response" /\ ~IsNone(result.evaluation)
        /\ ~result.input_none =>
        ScoringAttempts(Val(result.evaluation), Val(arguments).turn.evalScript)

(* C25: an answer turn is evaluated on the file-upload path exactly when   *)
(* file bytes were supplied with it, a file of zero length included, and   *)
(* on the text path otherwise.                                             *)
C25_FileBytesSelectFilePath ==
    result.call = "process_response" /\ ~IsNone(result.evaluation)
        /\ ~result.input_none =>
        LET path == Val(result.evaluation).path
        IN  IF IsNone(Val(arguments).turn.uploaded_file)
            THEN path \in { "llm", "text_heuristic" }
            ELSE path \in { "llm", "analysis_heuristic", "file_error" }

-----------------------------------------------------------------------------
\* the words of the answer handed to the text heuristic
WordsOf(answer) == Cardinality({ i \in 1..Len(answer) : answer[i] # "" })

\* the keywords of the fixed list found in the answer
KeywordsOf(answer) ==
    Cardinality({ t \in { "excel", "formula", "function", "cell", "range",
                          "worksheet", "data", "chart" } :
                    \E i \in 1..Len(answer) : t \in TermsOfWord(answer[i]) })

(* C26: the text heuristic score is the clamp to [1, 10] of 5.0, plus 1.0  *)
(* for 50 words or more, 0.5 for 25 to 49, 0 for 10 to 24 and -2.0 for     *)
(* fewer than 10, plus min(2.0, 0.3 x the number of distinct keywords of   *)
(* the fixed 8-word list found); it is always between 3.0 and 8.0.         *)
C26_TextHeuristicFormula ==
    returned # << >> =>
        LET w == WordsOf(Val(arguments).answer)
            k == KeywordsOf(Val(arguments).answer)
            length == IF w >= 50 THEN 10
                      ELSE IF w >= 25 THEN 5
                      ELSE IF w >= 10 THEN 0
                      ELSE -20
            bonus == IF 3 * k < 20 THEN 3 * k ELSE 20
            sum == 50 + length + bonus
        IN  /\ returned[1].score = (IF sum < 10 THEN 10 ELSE IF sum > 100 THEN 100 ELSE sum)
            /\ returned[1].score >= 30
            /\ returned[1].score <= 80

\* 50 words holding all eight keywords: 5.0 + 1.0 + 2.0
C26_Witness ==
    /\ returned # << >>
    /\ WordsOf(Val(arguments).answer) = 50
    /\ KeywordsOf(Val(arguments).answer) = 8
    /\ returned[1].score = 80

-----------------------------------------------------------------------------
(* Direct calls of _comprehensive_excel_analysis on file bytes, and of     *)
(* _analysis_based_evaluation on the analysis returned.                    *)

\* the most charts on the active sheet of an uploaded workbook
MaxCharts == 2

\* formula cells of the active sheet, each with the functions it names
FormulaCells ==
    { << >>, << { } >>, << { "SUM" } >>, << { "SUM" }, { "SUM" } >>,
      << { "VLOOKUP" }, { "SUM" } >> }

Files ==
    { FileBytes(9, TRUE, f, c, p) :
          f \in FormulaCells, c \in 0..MaxCharts, p \in { "data", "empty", "error" } }
    \cup { FileBytes(n, FALSE, << >>, 0, p) : n \in { 0, 9 }, p \in { "data", "error" } }

(* evaluation.py 216-260: the two try blocks of the analysis; nothing      *)
(* leaves them.                                                            *)
AnalysisOutcome_Propagating(file) ==
    [ raised |-> ~file.workbook, analysis |-> ComprehensiveExcelAnalysis(file) ]

AnalysisOutcome(file) ==
    [ raised |-> FALSE, analysis |-> ComprehensiveExcelAnalysis(file) ]

InitAnalysis ==
    /\ AgentIdle
    /\ arguments \in { Some([ file_content |-> f ]) : f \in Files }
    /\ returned = << >>
    /\ sessions = NoSessions

ComprehensiveExcelAnalysisCall ==
    /\ returned = << >>
    /\ returned' = << AnalysisOutcome(Val(arguments).file_content) >>
    /\ UNCHANGED << stateVars, tested_skills, evaluator, result, log, arguments,
                 sessions >>

AnalysisBasedEvaluationCall ==
    /\ Len(returned) = 1
    /\ ~returned[1].raised
    /\ returned' = Append(returned, AnalysisBasedEvaluation(returned[1].analysis))
    /\ UNCHANGED << stateVars, tested_skills, evaluator, result, log, arguments,
                 sessions >>

NextAnalysis == ComprehensiveExcelAnalysisCall \/ AnalysisBasedEvaluationCall

SpecAnalysis == InitAnalysis /\ [][NextAnalysis]_vars

\* the score the stated rules give an analysis, before the clamp
StatedFileScore(a) ==
    (IF a.file_readable THEN 50 ELSE 20)
    + (IF a.data_present THEN 10 ELSE -10)
    + (IF a.formulas # << >>
       THEN 15 + (IF a.functions_used \cap { "VLOOKUP", "INDEX", "MATCH", "SUMIF",
                                             "COUNTIF", "PIVOT" } # { }
                  THEN 10 ELSE 0)
       ELSE -10)
    + (IF a.charts_count > 0 THEN 5 ELSE 0)
    + (IF a.errors # << >> THEN -5 ELSE 0)

\* the analysis-based score follows the stated rules, clamped to [1, 10]
FileScoreAsStated ==
    Len(returned) = 2 =>
        LET sum == StatedFileScore(returned[1].analysis)
        IN  returned[2].score = (IF sum < 10 THEN 10 ELSE IF sum > 100 THEN 100 ELSE sum)

(* C27 as stated: the analysis-based heuristic starts at 5.0 (2.0 for an   *)
(* unreadable file), adds or subtracts 1.0 for data, adds 1.5 for formulas *)
(* (1.0 more for an advanced function) else subtracts 1.0, adds 0.5 for a  *)
(* chart, subtracts 0.5 for recorded errors and clamps to [1, 10]; for an  *)
(* unreadable file the score is 2.0.                                       *)
C27_UnreadableScoresTwo ==
    /\ FileScoreAsStated
    /\ Len(returned) = 2 /\ ~returned[1].analysis.file_readable =>
           returned[2].score = 20

(* C27 amended: the same rules; for an unreadable file they give           *)
(* 2.0 - 1.0 - 1.0 - 0.5, clamped: the score is 1.0.                       *)
C27_UnreadableScoresOne ==
    /\ FileScoreAsStated
    /\ Len(returned) = 2 /\ ~returned[1].analysis.file_readable =>
           returned[2].score = 10

\* an unreadable file scored by the heuristic
C27_Witness ==
    /\ Len(returned) = 2
    /\ ~Val(arguments).file_content.workbook
    /\ Val(arguments).file_content.size > 0
    /\ returned[2].score = 10
    /\ returned[2].strengths = << >>

-----------------------------------------------------------------------------
\* the difficulty after an answer scored `score` (tenths)
Adapted(difficulty, score) ==
    IF score >= 85 THEN (IF difficulty < 5 THEN difficulty + 1 ELSE 5)
    ELSE IF score <= 40 THEN (IF difficulty > 1 THEN difficulty - 1 ELSE 1)
    ELSE difficulty

(* C29: within an answer turn the answer is recorded on the most recently  *)
(* appended record, it is evaluated and the result stored there, the       *)
(* difficulty is adapted to the score, and only then is the next question  *)
(* generated: its request carries the adapted difficulty.                  *)
C29_TurnOrderStep ==
    result'.call = "process_response" /\ ~IsNone(result'.evaluation) =>
        LET i == Len(question_history)
            q == question_history'[i]
        IN  /\ i >= 1
            /\ q.answer = Val(arguments').turn.user_input
            /\ q.file_upload = Val(arguments').turn.uploaded_file
            /\ ~IsNone(q.score)
            /\ result'.ret.evaluation # None => Val(result'.ret.evaluation).score = Val(q.score)
            /\ current_difficulty' = Adapted(current_difficulty, Val(q.score))
            /\ ~IsNone(result'.generation) =>
                   /\ Val(result'.generation).difficulty = current_difficulty'
                   /\ Len(question_history') = i + 1
                   /\ IsNone(question_history'[i + 1].score)

C29_TurnOrder == [][C29_TurnOrderStep]_vars

\* a first answer scored 8.5: the request for question 2 carries level 3
C29_Witness ==
    /\ result.call = "process_response"
    /\ ~IsNone(result.evaluation)
    /\ ~IsNone(result.generation)
    /\ Len(question_history) = 2
    /\ question_history[1].score = Some(85)
    /\ Val(result.generation).difficulty = 3
    /\ current_difficulty = 3

(* C30: every question record in history has a difficulty_level in 1..5,   *)
(* whatever the model answered; a fallback question's level is             *)
(* current_difficulty clamped to [1, 3].                                   *)
C30_DifficultyLevelInRange ==
    /\ \A i \in 1..Len(question_history) :
           question_history[i].difficulty_level \in 1..5
    /\ result.call = "process_response" /\ ~IsNone(result.generation)
           /\ Val(result.generation).fallback =>
           question_history[Len(question_history)].difficulty_level =
               (IF current_difficulty < 1 THEN 1
                ELSE IF current_difficulty > 3 THEN 3 ELSE current_difficulty)

-----------------------------------------------------------------------------
(* Two browser sessions of src/app.py.  Each holds its own agent in its    *)
(* st.session_state (app.py 61-62) and its script calls process_response   *)
(* synchronously (app.py 183, 271): a session's next turn is submitted     *)
(* once its call has returned.  The steps of _handle_questioning_phase of  *)
(* the two sessions interleave freely.                                     *)

SessionIds == { 1, 2 }

(* app.py 62: the agent a session's script calls is that of its own        *)
(* st.session_state; one agent object shared by every session.             *)
AgentOf_Shared(s) == 1

AgentOf(s) == s

SessionTurns ==
    { Turn(Some(Ada), None, Script(0, HighScore)),
      Turn(Some(Answer12), None, Script(0, LowScore)) }

SessionGenScripts == { Script(1, QuestionA) }

\* a script run that is not inside a call
IdleRun ==
    [ pc |-> "idle", turn |-> None, genScript |-> None, current_question |-> 0,
      evaluation |-> None, start |-> None ]

(* agent.py 146-147: the answer stored on the current question             *)
StoreAnswer(agent, i, user_input, uploaded_file) ==
    [ agent EXCEPT !.state.question_history[i].answer = user_input,
                   !.state.question_history[i].file_upload = uploaded_file ]

(* agent.py 152-155: the evaluation stored on the current question         *)
StoreEvaluation(agent, i, ev) ==
    [ agent EXCEPT !.state.question_history[i].score = Some(ev.score),
                   !.state.question_history[i].feedback = Some(ev.feedback),
                   !.state.question_history[i].strengths = ev.strengths,
                   !.state.question_history[i].improvements = ev.improvements ]

InitSessions ==
    /\ AgentIdle
    /\ arguments = None
    /\ returned = << >>
    /\ sessions = [ s \in SessionIds |->
                      [ agent |-> [ state |-> InterviewState(MaxQuestions),
                                    tested_skills |-> { } ],
                        run   |-> IdleRun ] ]

SessionFrame ==
    UNCHANGED << stateVars, tested_skills, evaluator, result, log, arguments,
                 returned >>

\* the agent the script of session s works on
TheAgent(s) == sessions[AgentOf(s)].agent

(* agent.py 100-112 and 141-147: a turn is submitted.  In Questioning the  *)
(* call takes the last record as current question and stores the answer;   *)
(* in the other phases the whole handler is one step.                      *)
SubmitTurn(s) ==
    /\ sessions[s].run.pc = "idle"
    /\ \E turn \in SessionTurns, genScript \in SessionGenScripts :
         IF /\ TheAgent(s).state.current_phase = QUESTIONING
            /\ TheAgent(s).state.question_history # << >>
         THEN sessions' =
                [ sessions EXCEPT
                    ![AgentOf(s)].agent =
                        StoreAnswer(@, Len(@.state.question_history),
                                    turn.user_input, turn.uploaded_file),
                    ![s].run =
                        [ pc |-> "evaluate", turn |-> Some(turn),
                          genScript |-> Some(genScript),
                          current_question |->
                              Len(TheAgent(s).state.question_history),
                          evaluation |-> None,
                          start |-> Some(TheAgent(s)) ] ]
         ELSE sessions' =
                [ sessions EXCEPT
                    ![AgentOf(s)].agent =
                        ProcessResponseOutcome(@, TRUE, turn.user_input,
                                               turn.uploaded_file, genScript,
                                               turn.evalScript).agent ]
    /\ SessionFrame

(* agent.py 150: _evaluate_response, the calls to the scoring model        *)
EvaluateStep(s) ==
    /\ sessions[s].run.pc = "evaluate"
    /\ sessions' =
         [ sessions EXCEPT
             ![s].run.evaluation =
                 Some(EvaluateResponse(TRUE, Val(sessions[s].run.turn).user_input,
                                       Val(sessions[s].run.turn).uploaded_file,
                                       Val(sessions[s].run.turn).evalScript,
                                       0, 0, << >>).evaluation),
             ![s].run.pc = "store" ]
    /\ SessionFrame

(* agent.py 152-155                                                        *)
StoreStep(s) ==
    /\ sessions[s].run.pc = "store"
    /\ sessions' =
         [ sessions EXCEPT
             ![AgentOf(s)].agent =
                 StoreEvaluation(@, sessions[s].run.current_question,
                                 Val(sessions[s].run.evaluation)),
             ![s].run.pc = "adapt" ]
    /\ SessionFrame

(* agent.py 158: _adapt_difficulty                                         *)
AdaptStep(s) ==
    /\ sessions[s].run.pc = "adapt"
    /\ sessions' =
         [ sessions EXCEPT
             ![AgentOf(s)].agent.state.current_difficulty =
                 AdaptDifficulty(@, Val(sessions[s].run.evaluation).score),
             ![s].run.pc = "continue" ]
    /\ SessionFrame

(* agent.py 161-164: the test of question_count, and the wrap-up           *)
ContinueStep(s) ==
    /\ sessions[s].run.pc = "continue"
    /\ IF TheAgent(s).state.question_count >= TheAgent(s).state.max_questions
       THEN sessions' =
              [ sessions EXCEPT
                  ![AgentOf(s)].agent =
                      HandleWrapUp([ @ EXCEPT !.state.current_phase = WRAP_UP ],
                                   << WRAP_UP >>, NoEvaluation).agent,
                  ![s].run = IdleRun ]
       ELSE sessions' = [ sessions EXCEPT ![s].run.pc = "generate" ]
    /\ SessionFrame

(* agent.py 167: _generate_next_question, then the call returns            *)
GenerateStep(s) ==
    /\ sessions[s].run.pc = "generate"
    /\ sessions' =
         [ sessions EXCEPT
             ![AgentOf(s)].agent =
                 Generate(@, Val(sessions[s].run.genScript)).agent,
             ![s].run = IdleRun ]
    /\ SessionFrame

NextSessions ==
    \E s \in SessionIds :
        \/ SubmitTurn(s)
        \/ EvaluateStep(s)
        \/ StoreStep(s)
        \/ AdaptStep(s)
        \/ ContinueStep(s)
        \/ GenerateStep(s)

SpecSessions == InitSessions /\ [][NextSessions]_vars

\* the sessions whose script is inside a call on the agent of session a
InCall(a) == { s \in SessionIds : AgentOf(s) = a /\ sessions[s].run.pc # "idle" }

\* at most one turn is in progress on an agent, and its counter is in range
OneTurnAtATime ==
    \A a \in SessionIds :
        /\ Cardinality(InCall(a)) <= 1
        /\ sessions[a].agent.state.question_count
               <= sessions[a].agent.state.max_questions
        /\ sessions[a].agent.state.question_count
               = Len(sessions[a].agent.state.question_history)

\* a score, once on a record, is not written again
ScoredOnceStep ==
    \A a \in SessionIds :
        \A i \in 1..Len(sessions[a].agent.state.question_history) :
            ~IsNone(sessions[a].agent.state.question_history[i].score) =>
                sessions'[a].agent.state.question_history[i].score
                    = sessions[a].agent.state.question_history[i].score

\* a call that returns leaves the agent as the whole handler, run alone
\* from the state the call started in, would leave it
WholeTurnStep ==
    \A s \in SessionIds :
        sessions[s].run.pc # "idle" /\ sessions'[s].run.pc = "idle" =>
            sessions'[AgentOf(s)].agent =
                ProcessResponseOutcome(Val(sessions[s].run.start), TRUE,
                                       Val(sessions[s].run.turn).user_input,
                                       Val(sessions[s].run.turn).uploaded_file,
                                       Val(sessions[s].run.genScript),
                                       Val(sessions[s].run.turn).evalScript).agent

-----------------------------------------------------------------------------
\* the last call went through the wrap-up
PassedWrapUp == \E i \in 1..Len(result.phases) : result.phases[i] = WRAP_UP

(* C31: overall_score is unset in every state whose phase is Introduction  *)
(* or Questioning and is set exactly when the phase is Completed; WrapUp   *)
(* is never the phase between two calls, and a call passes through it only *)
(* when it answers the last question (it scored an answer, the count has   *)
(* reached max_questions) and ends in Completed.                           *)
C31_OverallScoreIffCompleted ==
    /\ current_phase \in { INTRODUCTION, QUESTIONING } => IsNone(overall_score)
    /\ current_phase = COMPLETED <=> ~IsNone(overall_score)
    /\ current_phase # WRAP_UP
    /\ PassedWrapUp =>
          /\ result.call = "process_response"
          /\ result.phases = << WRAP_UP, COMPLETED >>
          /\ ~IsNone(result.evaluation)
          /\ current_phase = COMPLETED
          /\ question_count = max_questions
          /\ ~IsNone(question_history[Len(question_history)].score)

\* the call that answered the last question has just completed the session
C31_Witness ==
    /\ PassedWrapUp
    /\ current_phase = COMPLETED
    /\ ~IsNone(overall_score)
    /\ Len(question_history) = MaxQuestions

-----------------------------------------------------------------------------
(* C32: between calls question_count equals the length of question_history *)
(* and the record ids are 1, 2, ..., question_count in history order,      *)
(* whether a question came from the model at the first or a later attempt  *)
(* or from the fallback.                                                   *)
C32_IdsAreOneToCount ==
    /\ question_count = Len(question_history)
    /\ \A i \in 1..Len(question_history) : question_history[i].question_id = i

\* two questions, the second one the fallback after three failed attempts
C32_Witness ==
    /\ Len(question_history) = 2
    /\ question_count = 2
    /\ ~IsNone(result.generation)
    /\ Val(result.generation).fallback
    /\ Val(result.generation).calls = 3
    /\ question_history[1].question_text = QuestionA.question_text
    /\ question_history[2].question_id = 2

-----------------------------------------------------------------------------
(* C33: between calls, while the phase is Questioning there is a last      *)
(* record, it is the only record without a score and every earlier record  *)
(* has one; when the phase is Completed every record has a score.          *)
C33_OnlyLastUnscored ==
    /\ current_phase = QUESTIONING =>
          /\ question_history # << >>
          /\ \A i \in 1..Len(question_history) :
                IsNone(question_history[i].score) <=> i = Len(question_history)
    /\ current_phase = COMPLETED =>
          \A i \in 1..Len(question_history) :
              ~IsNone(question_history[i].score)

\* Questioning with one scored record and the open one
C33_Witness ==
    /\ current_phase = QUESTIONING
    /\ Len(question_history) = 2
    /\ ~IsNone(question_history[1].score)
    /\ IsNone(question_history[2].score)

\* a completed session of two scored records
C33_WitnessCompleted ==
    /\ current_phase = COMPLETED
    /\ Len(question_history) = 2
    /\ \A i \in 1..2 : ~IsNone(question_history[i].score)

-----------------------------------------------------------------------------
(* C34: every call that scores an answer returns that answer's evaluation  *)
(* (the score and the feedback stored on the record) in the dict it        *)
(* returns, the call that answers the last question and completes the      *)
(* interview included.                                                     *)
C34_ScoredTurnReturnsEvaluation ==
    result.call = "process_response" /\ ~IsNone(result.evaluation) =>
        LET q == question_history[EvaluatedIndex(result, question_history)]
        IN  /\ ~IsNone(result.ret.evaluation)
            /\ Some(Val(result.ret.evaluation).score) = q.score
            /\ Some(Val(result.ret.evaluation).feedback) = q.feedback

-----------------------------------------------------------------------------
(* C35: after start_interview, called on an agent in any state, the        *)
(* session is that of a newly constructed agent: phase Introduction,       *)
(* question_count 0, empty history, difficulty 2, overall_score unset and  *)
(* no tested skill.                                                        *)
C35_StartInterviewResets ==
    result.call = "start_interview" =>
        /\ current_phase = INTRODUCTION
        /\ question_count = 0
        /\ question_history = << >>
        /\ current_difficulty = 2
        /\ IsNone(overall_score)
        /\ IsNone(candidate_name)
        /\ tested_skills = { }

-----------------------------------------------------------------------------
(* C36: in a session of at most 7 questions no two question records share  *)
(* a skill_area, whatever the model answered and on the fallback path.     *)
C36_NoSkillTwice ==
    max_questions <= 7 =>
        \A i, j \in 1..Len(question_history) :
            i # j => question_history[i].skill_area # question_history[j].skill_area

-----------------------------------------------------------------------------
\* every answer the session has recorded is a text answer
OnlyTextAnswers ==
    \A i \in 1..Len(question_history) : IsNone(question_history[i].file_upload)

(* C37: in a session where every scoring-model call fails and every answer *)
(* is text, current_difficulty never rises above its initial value 2: no   *)
(* score the session records reaches 8.5.                                  *)
C37_TextOutageNeverRaises ==
    OnlyTextAnswers =>
        /\ current_difficulty <= 2
        /\ \A i \in 1..Len(question_history) :
               ~IsNone(question_history[i].score) =>
                   Val(question_history[i].score) < 85

\* the text heuristic has just given its highest score, 8.0
C37_Witness ==
    /\ OnlyTextAnswers
    /\ result.call = "process_response"
    /\ ~IsNone(result.evaluation)
    /\ Val(result.evaluation).path = "text_heuristic"
    /\ question_history[EvaluatedIndex(result, question_history)].score = Some(80)
    /\ question_history[EvaluatedIndex(result, question_history)].answer
           = Some(Answer50)
    /\ current_difficulty = 2

-----------------------------------------------------------------------------
\* the score r, a number of tenths, as a mean
Tenths(r) == [ num |-> r, den |-> 1 ]

(* C39: in every report the performance_level agrees with the              *)
(* overall_score shown in the same report: the thresholds 8.5, 7.0, 5.0    *)
(* and 3.0 applied to the reported overall_score give the reported         *)
(* performance_level, and likewise for the average_score and the           *)
(* performance_level of every skill_breakdown entry.                       *)
C39_LevelAgreesWithShownScore ==
    \A k \in 1..Len(returned) :
        ~IsNone(returned[k].report) =>
            LET report == Val(returned[k].report)
            IN  /\ report.performance_level
                       = GetPerformanceLevel(Tenths(report.overall_score))
                /\ \A skill \in DOMAIN report.skill_breakdown :
                       report.skill_breakdown[skill].performance_level
                           = GetPerformanceLevel(
                                 Tenths(report.skill_breakdown[skill].average_score))

-----------------------------------------------------------------------------
(* One browser session of src/app.py, driven through its widgets.  Every   *)
(* widget event runs main() once: initialize_session_state, setup_sidebar, *)
(* then the branch of the main flow; st.rerun() runs it once more with no  *)
(* widget pressed.  sessions[1] holds st.session_state (state), the text   *)
(* of the key input (api_key), the button pressed last, whether that run   *)
(* showed st.error, and whether Reset Interview has been pressed with a    *)
(* valid key configured.                                                   *)

(* app.py 23-33: the defaults of initialize_session_state.  evaluator is   *)
(* TRUE for an AnswerEvaluator, FALSE for None.                            *)
DefaultValues ==
    [ agent                 |-> None,
      evaluator             |-> FALSE,
      interview_started     |-> FALSE,
      interview_completed   |-> FALSE,
      api_key_valid         |-> FALSE,
      current_question_data |-> None,
      awaiting_answer       |-> FALSE,
      evaluation_results    |-> << >>,
      error_message         |-> None ]

(* app.py 57-67: the evaluator and the agent are built when a key is       *)
(* present and none has been accepted yet; a key the constructors reject   *)
(* leaves the session as it is.                                            *)
SetupSidebar(ss, api_key) ==
    IF api_key = "accepted" /\ ~ss.api_key_valid
    THEN [ ss EXCEPT !.evaluator = TRUE,
                     !.agent = Some([ state |-> InterviewState(default_max_questions),
                                      tested_skills |-> { } ]),
                     !.api_key_valid = TRUE ]
    ELSE ss

InitApp ==
    /\ AgentIdle
    /\ arguments = None
    /\ returned = << >>
    /\ sessions = << [ state |-> DefaultValues, api_key |-> "",
                       pressed |-> "none", error |-> FALSE,
                       reset_pressed |-> FALSE ] >>

\* st.session_state once setup_sidebar has run in the current script run
AfterSidebar == SetupSidebar(sessions[1].state, sessions[1].api_key)

(* app.py 47-53: the key input is edited, and main() runs                  *)
TypeApiKey ==
    /\ \E key \in { "", "accepted", "rejected" } :
         /\ key # sessions[1].api_key
         /\ sessions' = [ sessions EXCEPT
                            ![1].api_key = key,
                            ![1].state = SetupSidebar(@, key),
                            ![1].pressed = "none",
                            ![1].error = FALSE ]
    /\ SessionFrame

(* app.py 100-101 and 116-123: Reset Interview deletes every key but       *)
(* api_key_valid and evaluator, restores the defaults and reruns.          *)
PressResetInterview ==
    /\ sessions' = [ sessions EXCEPT
                       ![1].state =
                           SetupSidebar(
                               [ DefaultValues EXCEPT
                                   !.api_key_valid = AfterSidebar.api_key_valid,
                                   !.evaluator = AfterSidebar.evaluator ],
                               sessions[1].api_key),
                       ![1].pressed = "reset",
                       ![1].error = FALSE,
                       ![1].reset_pressed = @ \/ AfterSidebar.api_key_valid ]
    /\ SessionFrame

(* app.py 391-402: Start Excel Interview, offered while the key is valid   *)
(* and no interview is started; a failing start_interview is reported with *)
(* st.error.                                                               *)
PressStartInterview ==
    /\ AfterSidebar.api_key_valid
    /\ ~AfterSidebar.interview_started
    /\ IF IsNone(AfterSidebar.agent)
       THEN sessions' = [ sessions EXCEPT ![1].state = AfterSidebar,
                                          ![1].pressed = "start",
                                          ![1].error = TRUE ]
       ELSE sessions' = [ sessions EXCEPT
                            ![1].state =
                                [ AfterSidebar EXCEPT
                                    !.agent = Some(StartInterviewAgent(
                                                       Val(AfterSidebar.agent))),
                                    !.interview_started = TRUE ],
                            ![1].pressed = "start",
                            ![1].error = FALSE ]
    /\ SessionFrame

\* the main flow shows the interview interface on an agent in phase p
Interviewing(p) ==
    /\ AfterSidebar.api_key_valid
    /\ AfterSidebar.interview_started
    /\ ~AfterSidebar.interview_completed
    /\ ~IsNone(AfterSidebar.agent)
    /\ Val(AfterSidebar.agent).state.current_phase = p

\* session_state after process_response returned out
Answered(ss, out) ==
    [ ss EXCEPT !.agent = Some(out.agent),
                !.current_question_data = out.ret.question ]

(* app.py 268-274: Start Interview with a name that is not blank           *)
SubmitName ==
    /\ Interviewing(INTRODUCTION)
    /\ \E genScript \in SessionGenScripts :
         sessions' =
           [ sessions EXCEPT
               ![1].state =
                   Answered(AfterSidebar,
                            ProcessResponseOutcome(
                                Val(AfterSidebar.agent), TRUE, Some(Strip(Ada)),
                                None, genScript, Script(0, EvalFailure))),
               ![1].pressed = "name",
               ![1].error = FALSE ]
    /\ SessionFrame

\* process_answer (app.py 185-200) on the dict process_response returned
AfterProcessAnswer(ss, out) ==
    IF ~IsNone(out.ret.error)
    THEN [ ss EXCEPT !.agent = Some(out.agent) ]
    ELSE [ Answered(ss, out) EXCEPT
             !.interview_completed = (out.ret.phase = Some(COMPLETED)) ]

(* app.py 150-153 and 178-200: Submit Answer with an answer that is not    *)
(* blank                                                                   *)
SubmitAnswer ==
    /\ Interviewing(QUESTIONING)
    /\ ~IsNone(AfterSidebar.current_question_data)
    /\ \E turn \in SessionTurns, genScript \in SessionGenScripts :
         sessions' =
           [ sessions EXCEPT
               ![1].state =
                   AfterProcessAnswer(
                       AfterSidebar,
                       ProcessResponseOutcome(
                           Val(AfterSidebar.agent), TRUE, turn.user_input,
                           turn.uploaded_file, genScript, turn.evalScript)),
               ![1].pressed = "answer",
               ![1].error = FALSE ]
    /\ SessionFrame

NextApp ==
    \/ TypeApiKey
    \/ PressResetInterview
    \/ PressStartInterview
    \/ SubmitName
    \/ SubmitAnswer

SpecApp == InitApp /\ [][NextApp]_vars

(* C38: after Reset Interview has been pressed with a valid API key        *)
(* configured, a new interview can be started: when Start Excel Interview  *)
(* is next pressed an agent exists, the start does not fail and the        *)
(* session reaches the Introduction phase.                                 *)
C38_StartAfterReset ==
    /\ sessions[1].reset_pressed
    /\ sessions[1].state.api_key_valid
    /\ sessions[1].pressed = "start"
    =>
    /\ ~IsNone(sessions[1].state.agent)
    /\ ~sessions[1].error
    /\ sessions[1].state.interview_started
    /\ Val(sessions[1].state.agent).state.current_phase = INTRODUCTION

====
